---------------------------- MODULE Spec2Model ----------------------------
(***************************************************************************)
(* H200 index publication pipeline: the validation gate and the database   *)
(* publisher of push_to_supabase.py, and the on-chain publishers of        *)
(* push_to_contract.py and Push_h200_provider_specific_markets.py, and the  *)
(* strategy chains and currency conversions of the provider scrapers.      *)
(*                                                                         *)
(* Money is held in whole cents (USD/hr * 100).  The Python floats of the  *)
(* gate are compared in exact arithmetic: an inequality between two        *)
(* quotients is cross-multiplied, so no division ever rounds.              *)
(*                                                                         *)
(* Scripts are separate OS processes started one after another by the      *)
(* scheduler; a script starts only when no other script is running.  The   *)
(* log file, the transaction fee and the processes of push_to_supabase.py  *)
(* have specifications of their own (SpecLog, SpecFee, SpecRuns).          *)
(***************************************************************************)
EXTENDS Integers, Sequences, FiniteSets, TLC

\* ------------------------------------------------------------------ bounds

\* Script invocations (push_to_supabase.py, push_to_contract.py,
\* Push_h200_provider_specific_markets.py) in one behaviour.
MaxCalls == 2

\* Rows already in h200_index_prices when the behaviour starts.
MaxInitRows == 2

\* Snapshots the upstream aggregator writes to h200_weighted_index.json.
MaxSnapshots == 1

\* Prices of the rows already stored, and of the snapshots proposed, in cents.
HistPrices == {400, 420}
NewPrices == {300, 500, 520}

\* hyperscaler_details / neocloud_details of a snapshot, longest form.
AllHyperscalers ==
    << [provider |-> "AWS", effective_price |-> 265],
       [provider |-> "Google Cloud", effective_price |-> 455] >>
AllNeoclouds == << [provider |-> "Crusoe"] >>

\* Prices given to push_to_contract.py on its command line, in cents: 3.00
\* times 10**18 is a float, 4.35 times 10**18 lies between two floats.
CliPrices == {300, 435}

\* ---------------------------------------------------------------- helpers

Prefixes(s) == { SubSeq(s, 1, n) : n \in 0..Len(s) }

SeqsUpTo(S, n) == UNION { [1..k -> S] : k \in 0..n }

RECURSIVE SumPrices(_)
SumPrices(s) == IF s = << >> THEN 0 ELSE Head(s) + SumPrices(Tail(s))

\* .order('created_at', desc=True).limit(n): created_at is set by the store
\* at insertion, so the newest rows are the last ones of the table.
LatestRows(table, n) ==
    LET k == IF Len(table) < n THEN Len(table) ELSE n
    IN [i \in 1..k |-> table[Len(table) + 1 - i]]

\* ------------------------------------------------------- large integers

\* Python integers are unbounded and a float carries a 53-bit significand:
\* neither fits a machine word.  A natural number is held as the sequence of
\* its base-10000 digits, least significant first, without leading zeros.
RECURSIVE BigOf(_)
BigOf(n) == IF n = 0 THEN << >> ELSE << n % 10000 >> \o BigOf(n \div 10000)

RECURSIVE BigTrim(_)
BigTrim(a) ==
    IF a # << >> /\ a[Len(a)] = 0 THEN BigTrim(SubSeq(a, 1, Len(a) - 1))
    ELSE a

RECURSIVE BigTimes(_, _, _)
\* a * m + carry, for m and carry below 10000
BigTimes(a, m, carry) ==
    IF a = << >> THEN BigOf(carry)
    ELSE LET v == Head(a) * m + carry
         IN  << v % 10000 >> \o BigTimes(Tail(a), m, v \div 10000)

RECURSIVE BigDivMod(_, _, _)
BigDivMod(a, d, rem) ==
    IF a = << >> THEN [q |-> << >>, r |-> rem]
    ELSE LET v == rem * 10000 + a[Len(a)]
             rest == BigDivMod(SubSeq(a, 1, Len(a) - 1), d, v % d)
         IN  [q |-> Append(rest.q, v \div d), r |-> rest.r]

\* Quotient and remainder of a by a small divisor d.
BigDiv(a, d) ==
    LET x == BigDivMod(a, d, 0) IN [q |-> BigTrim(x.q), r |-> x.r]

RECURSIVE BigLess(_, _)
BigLess(a, b) ==
    IF Len(a) # Len(b) THEN Len(a) < Len(b)
    ELSE IF a = << >> THEN FALSE
    ELSE IF a[Len(a)] # b[Len(b)] THEN a[Len(a)] < b[Len(b)]
    ELSE BigLess(SubSeq(a, 1, Len(a) - 1), SubSeq(b, 1, Len(b) - 1))

RECURSIVE BigMinus(_, _, _)
\* a - b - borrow, for a >= b
BigMinus(a, b, borrow) ==
    IF a = << >> THEN << >>
    ELSE LET v == Head(a) - (IF b = << >> THEN 0 ELSE Head(b)) - borrow
         IN  << (v + 10000) % 10000 >>
             \o BigMinus(Tail(a), IF b = << >> THEN << >> ELSE Tail(b),
                         IF v < 0 THEN 1 ELSE 0)

\* abs(a - b)
BigDistance(a, b) ==
    IF BigLess(a, b) THEN BigTrim(BigMinus(b, a, 0))
    ELSE BigTrim(BigMinus(a, b, 0))

RECURSIVE BigDouble(_, _)
\* a * 2^k
BigDouble(a, k) == IF k = 0 THEN a ELSE BigTimes(BigDouble(a, k - 1), 2, 0)

RECURSIVE BigHalve(_, _)
\* a // 2^k
BigHalve(a, k) == IF k = 0 THEN a ELSE BigDiv(BigHalve(a, k - 1), 2).q

RECURSIVE BigTimesPow10(_, _)
\* a * 10^k
BigTimesPow10(a, k) ==
    IF k = 0 THEN a ELSE BigTimes(BigTimesPow10(a, k - 1), 10, 0)

BigOdd(a) == a # << >> /\ a[1] % 2 = 1

\* ------------------------------------------------------- Python floats

\* A positive float is sig / 2^shift with 2^52 <= sig <= 2^53.
SigLow == BigDouble(<< 1 >>, 52)
SigHigh == BigDouble(<< 1 >>, 53)

RECURSIVE FloatGrow(_, _)
\* Doubles g.n until it reaches least, counting the doublings.
FloatGrow(g, least) ==
    IF BigLess(g.n, least)
    THEN FloatGrow([n |-> BigTimes(g.n, 2, 0), shift |-> g.shift + 1], least)
    ELSE g

\* The float a decimal literal of cents / 100 dollars is read as (argparse
\* type=float, json.load): the nearest float, ties to the even significand.
FloatOfCents(cents) ==
    LET g == FloatGrow([n |-> BigOf(cents), shift |-> 0],
                       BigTimes(SigLow, 100, 0))
        d == BigDiv(g.n, 100)
        up == 2 * d.r > 100 \/ (2 * d.r = 100 /\ BigOdd(d.q))
    IN  [sig |-> IF up THEN BigTimes(d.q, 1, 1) ELSE d.q, shift |-> g.shift]

RECURSIVE FloatShrink(_)
\* Halves s.n until it fits a significand, remembering the last bit dropped
\* and whether any bit dropped before it was set.
FloatShrink(s) ==
    IF BigLess(s.n, SigHigh) THEN s
    ELSE LET h == BigDiv(s.n, 2)
         IN  FloatShrink([n |-> h.q, dropped |-> s.dropped + 1, half |-> h.r,
                          sticky |-> (s.sticky \/ s.half = 1)])

\* x * 10**decimals: Python turns the integer 10**decimals into a float
\* (exactly, for decimals up to 22) and rounds the product to the nearest
\* float, ties to even.
FloatTimesPow10(x, decimals) ==
    LET s == FloatShrink([n |-> BigTimesPow10(x.sig, decimals), dropped |-> 0,
                          half |-> 0, sticky |-> FALSE])
        up == s.half = 1 /\ (s.sticky \/ BigOdd(s.n))
    IN  [sig |-> IF up THEN BigTimes(s.n, 1, 1) ELSE s.n,
         shift |-> x.shift - s.dropped]

\* int(x): the integer part of a positive float.
FloatToInt(x) ==
    IF x.shift <= 0 THEN BigDouble(x.sig, 0 - x.shift)
    ELSE BigHalve(x.sig, x.shift)

\* ----------------------------------------------------------- the gate

\* tolerance = 0.25, kept as the fraction ToleranceNum / ToleranceDen.
ToleranceNum == 25
ToleranceDen == 100

\* Fewer rows than this and the gate lets the price through.
MinHistory == 2

\* The comparison with the bounds themselves left out.
WithinToleranceStrict(last_prices, new_price) ==
    LET total == SumPrices(last_prices)
        scale == Len(last_prices) * ToleranceDen
    IN  /\ total * (ToleranceDen - ToleranceNum) < new_price * scale
        /\ new_price * scale < total * (ToleranceDen + ToleranceNum)

\* lower_bound <= new_price <= upper_bound, with
\*   avg = sum(last_prices) / len(last_prices)
\*   lower_bound = avg * (1 - tolerance), upper_bound = avg * (1 + tolerance)
\* each side multiplied by len(last_prices) * ToleranceDen.
WithinTolerance(last_prices, new_price) ==
    LET total == SumPrices(last_prices)
        scale == Len(last_prices) * ToleranceDen
    IN  /\ total * (ToleranceDen - ToleranceNum) <= new_price * scale
        /\ new_price * scale <= total * (ToleranceDen + ToleranceNum)

\* The gate with the bootstrap case cut down to an empty table.
ValidatePriceOneRow(response, new_price) ==
    IF response.error THEN TRUE
    ELSE IF Len(response.data) < 1 THEN TRUE
    ELSE WithinTolerance([i \in 1..Len(response.data) |->
                              response.data[i].index_price], new_price)

\* The gate refusing the price when the history cannot be read.
ValidatePriceFailClosed(response, new_price) ==
    IF response.error THEN FALSE
    ELSE IF Len(response.data) < MinHistory THEN TRUE
    ELSE WithinTolerance([i \in 1..Len(response.data) |->
                              response.data[i].index_price], new_price)

\* validate_price: response is [error, data]; error stands for any exception
\* raised while the history is fetched or parsed.
ValidatePrice(response, new_price) ==
    IF response.error THEN TRUE
    ELSE IF Len(response.data) < MinHistory THEN TRUE
    ELSE WithinTolerance([i \in 1..Len(response.data) |->
                              response.data[i].index_price], new_price)


\* ------------------------------------------------------------------ state

VARIABLES
    index_data,            \* h200_weighted_index.json: the proposed snapshot
    snapshots,             \* snapshots written so far (the next timestamp)
    calls,                 \* script invocations started so far
    h200_index_prices,     \* index table, in insertion order
    h200_provider_prices,  \* provider table, in insertion order
    decisions,             \* every verdict validate_price has returned
    sb_pc,                 \* position of the running push_to_supabase
    sb_call,               \* its invocation number
    sb_index_data,         \* index_data as load_index_data returned it
    sb_new_price,          \* new_price
    sb_gate,               \* what validate_price returned
    sb_insert,             \* how the index insert ended
    sb_index_id,           \* index_id = response.data[0]['id']
    sb_obs,                \* how push_hyperscaler_prices ended
    sb_ret,                \* the return value of push_to_supabase
    chain_txs,             \* raw transactions the RPC node has accepted
    audit_log,             \* the two JSON update logs, one per script
    or_pc,                 \* position of the running oracle script
    or_script,             \* "markets" or "contract"
    or_env,                \* the environment the script was started in
    or_request,            \* the prices the command line asked to publish
    or_call,               \* its invocation number
    or_fn,                 \* contract function of the transaction
    or_prices,             \* prices_to_update, as provider/price pairs
    or_source,             \* timestamp of the snapshot the prices were read from
    or_trace,              \* stages the publish attempt has gone through
    or_sent,               \* send_raw_transaction calls that went out
    or_receipt,            \* how waiting for the receipt ended
    or_tx_hash,            \* tx_hash returned by _send_transaction
    or_verify,             \* what update_price printed after its read-back
    or_exit,               \* exit status of the script
    sc_pc,                 \* position of the running scraper
    sc_provider,           \* the provider whose scraper it is
    sc_rate,               \* inr_to_usd / eur_to_usd in thousandths, 0 for None
    sc_queried,            \* exchange-rate endpoints queried, with the answers
    sc_invoked,            \* strategies run, with what they returned
    sc_h200_prices,        \* h200_prices / all_prices_inr as the loop left it
    sc_result,             \* what get_h200_prices returned
    lg_file,               \* a log file: what it holds, and the list if a list
    lg_k,                  \* log_update calls made on it so far
    lg_read,               \* how the last log_update got its logs
    lg_write,              \* how the write of the last log_update ended
    lg_raised,             \* whether the last log_update raised
    lg_faults,             \* failed reads, failed writes and damage so far
    fe_gas_price,          \* w3.eth.gas_price as the node answers it now, in wei
    fe_nonce,              \* get_transaction_count(address) as it answers now
    fe_pending,            \* whether a transaction of the address waits unmined
    fe_txs,                \* the transactions _send_transaction has built
    rn_pc,                 \* position of each push_to_supabase process
    rn_call,               \* invocation number of each process
    rn_price               \* new_price of each process

sbVars == << sb_pc, sb_call, sb_index_data, sb_new_price, sb_gate, sb_insert, sb_index_id,
             sb_obs, sb_ret >>
dbVars == << h200_index_prices, h200_provider_prices, decisions >>

NoSnapshot == [timestamp |-> 0, final_index_price |-> 0,
               hyperscaler_details |-> << >>, neocloud_details |-> << >>]

\* A row the store held before the first modelled invocation (call 0).
OldRow(i, p) == [id |-> i, index_price |-> p, timestamp |-> 0, call |-> 0]

InitDB ==
    /\ index_data = NoSnapshot
    /\ snapshots = 0
    /\ calls = 0
    /\ \E old \in SeqsUpTo(HistPrices, MaxInitRows) :
           h200_index_prices = [i \in 1..Len(old) |-> OldRow(i, old[i])]
    /\ h200_provider_prices = << >>
    /\ decisions = {}
    /\ sb_pc = "idle"
    /\ sb_call = 0
    /\ sb_index_data = NoSnapshot
    /\ sb_new_price = 0
    /\ sb_gate = "none"
    /\ sb_insert = "none"
    /\ sb_index_id = 0
    /\ sb_obs = "none"
    /\ sb_ret = "none"

SupabaseRunning == sb_pc \notin {"idle", "returned"}

\* ------------------------------------------------- the upstream aggregator

\* The weighted-index computation writes a new snapshot between two scripts.
Aggregate(price, hyper, neo) ==
    /\ snapshots < MaxSnapshots
    /\ index_data' = [timestamp |-> snapshots + 1,
                      final_index_price |-> price,
                      hyperscaler_details |-> hyper,
                      neocloud_details |-> neo]
    /\ snapshots' = snapshots + 1

\* ------------------------------------------------------- push_to_supabase

\* main and the head of push_to_supabase: load the snapshot, read the
\* credentials, create the client, take new_price.
SbBegin(configured) ==
    /\ calls < MaxCalls
    /\ calls' = calls + 1
    /\ sb_call' = calls + 1
    /\ sb_index_data' = index_data
    /\ sb_gate' = "none"
    /\ sb_insert' = "none"
    /\ sb_index_id' = 0
    /\ sb_obs' = "none"
    /\ IF index_data = NoSnapshot
       THEN /\ sb_pc' = "returned"
            /\ sb_ret' = "exit"
            /\ sb_new_price' = 0
       ELSE IF ~configured
       THEN /\ sb_pc' = "returned"
            /\ sb_ret' = "false"
            /\ sb_new_price' = 0
       ELSE /\ sb_pc' = "validate"
            /\ sb_ret' = "none"
            /\ sb_new_price' = index_data.final_index_price
    /\ UNCHANGED << index_data, snapshots, dbVars >>

\* The verdict as it is kept for the record.
Verdict(response, accepted) ==
    [call |-> sb_call, timestamp |-> sb_index_data.timestamp,
     price |-> sb_new_price, error |-> response.error,
     history |-> [i \in 1..Len(response.data) |-> response.data[i].index_price],
     accepted |-> accepted]

\* The verdict computed and printed, and the insert reached whatever it is.
SbValidateUngated(error) ==
    /\ sb_pc = "validate"
    /\ LET response == [error |-> error,
                        data |-> LatestRows(h200_index_prices, 2)]
           accepted == ValidatePrice(response, sb_new_price)
       IN  /\ decisions' = decisions \cup {Verdict(response, accepted)}
           /\ sb_gate' = IF accepted THEN "accepted" ELSE "rejected"
           /\ sb_pc' = "insert"
           /\ sb_ret' = sb_ret
    /\ UNCHANGED << index_data, snapshots, calls, h200_index_prices,
                    h200_provider_prices, sb_call, sb_index_data,
                    sb_new_price, sb_insert, sb_index_id, sb_obs >>

\* if not validate_price(supabase, new_price): return False
SbValidate(error) ==
    /\ sb_pc = "validate"
    /\ LET response == [error |-> error,
                        data |-> LatestRows(h200_index_prices, 2)]
           accepted == ValidatePrice(response, sb_new_price)
       IN  /\ decisions' = decisions \cup {Verdict(response, accepted)}
           /\ IF accepted
              THEN /\ sb_gate' = "accepted"
                   /\ sb_pc' = "insert"
                   /\ sb_ret' = sb_ret
              ELSE /\ sb_gate' = "rejected"
                   /\ sb_pc' = "returned"
                   /\ sb_ret' = "false"
    /\ UNCHANGED << index_data, snapshots, calls, h200_index_prices,
                    h200_provider_prices, sb_call, sb_index_data,
                    sb_new_price, sb_insert, sb_index_id, sb_obs >>

\* How one insert request can end: a response with the stored rows, a
\* response without data, or an exception; in the last two the store may or
\* may not have kept the rows.
InsertOutcomes ==
    { [result |-> r, stored |-> s] :
        r \in {"ok", "nodata", "raise"}, s \in BOOLEAN } \
    { [result |-> "ok", stored |-> FALSE] }

\* The index insert followed by the provider insert whatever it returned.
SbInsertIndexThenPush(outcome) ==
    /\ sb_pc = "insert"
    /\ LET row == [id |-> Len(h200_index_prices) + 1,
                   index_price |-> sb_new_price,
                   timestamp |-> sb_index_data.timestamp,
                   call |-> sb_call]
       IN  /\ h200_index_prices' =
                 IF outcome.stored THEN Append(h200_index_prices, row)
                 ELSE h200_index_prices
           /\ sb_insert' = outcome.result
           /\ sb_index_id' = IF outcome.result = "ok" THEN row.id ELSE 0
           /\ sb_pc' = "providers"
           /\ sb_ret' = sb_ret
    /\ UNCHANGED << index_data, snapshots, calls, h200_provider_prices,
                    decisions, sb_call, sb_index_data, sb_new_price,
                    sb_gate, sb_obs >>

\* supabase.table('h200_index_prices').insert(insert_data).execute()
SbInsertIndex(outcome) ==
    /\ sb_pc = "insert"
    /\ LET row == [id |-> Len(h200_index_prices) + 1,
                   index_price |-> sb_new_price,
                   timestamp |-> sb_index_data.timestamp,
                   call |-> sb_call]
       IN  /\ h200_index_prices' =
                 IF outcome.stored THEN Append(h200_index_prices, row)
                 ELSE h200_index_prices
           /\ sb_insert' = outcome.result
           /\ IF outcome.result = "ok"
              THEN /\ sb_index_id' = row.id
                   /\ sb_pc' = "providers"
                   /\ sb_ret' = sb_ret
              ELSE /\ sb_index_id' = 0
                   /\ sb_pc' = "returned"
                   /\ sb_ret' = "false"
    /\ UNCHANGED << index_data, snapshots, calls, h200_provider_prices,
                    decisions, sb_call, sb_index_data, sb_new_price,
                    sb_gate, sb_obs >>

\* provider_records built from the first detail alone.
ProviderRecordsFirstOnly(details, index_id) ==
    [i \in 1..(IF Len(details) > 1 THEN 1 ELSE Len(details)) |->
        [index_id |-> index_id,
         timestamp |-> sb_index_data.timestamp,
         provider_name |-> details[i].provider,
         provider_type |-> "hyperscaler",
         effective_price |-> details[i].effective_price,
         call |-> sb_call]]

\* provider_records of push_hyperscaler_prices: one per hyperscaler detail.
ProviderRecords(details, index_id) ==
    [i \in 1..Len(details) |->
        [index_id |-> index_id,
         timestamp |-> sb_index_data.timestamp,
         provider_name |-> details[i].provider,
         provider_type |-> "hyperscaler",
         effective_price |-> details[i].effective_price,
         call |-> sb_call]]

\* push_to_supabase returning what push_hyperscaler_prices returned.
SbPushProvidersStrict(outcome) ==
    /\ sb_pc = "providers"
    /\ LET provider_records ==
               ProviderRecords(sb_index_data.hyperscaler_details, sb_index_id)
       IN  IF provider_records = << >>
           THEN /\ sb_obs' = "empty"
                /\ sb_ret' = "false"
                /\ h200_provider_prices' = h200_provider_prices
           ELSE /\ sb_obs' = outcome.result
                /\ sb_ret' = IF outcome.result = "ok" THEN "true" ELSE "false"
                /\ h200_provider_prices' =
                      IF outcome.stored
                      THEN h200_provider_prices \o provider_records
                      ELSE h200_provider_prices
    /\ sb_pc' = "returned"
    /\ UNCHANGED << index_data, snapshots, calls, h200_index_prices, decisions,
                    sb_call, sb_index_data, sb_new_price, sb_gate, sb_insert,
                    sb_index_id >>

\* push_hyperscaler_prices(supabase, index_data, index_id); return True
SbPushProviders(outcome) ==
    /\ sb_pc = "providers"
    /\ LET provider_records ==
               ProviderRecords(sb_index_data.hyperscaler_details, sb_index_id)
       IN  IF provider_records = << >>
           THEN /\ sb_obs' = "empty"
                /\ h200_provider_prices' = h200_provider_prices
           ELSE /\ sb_obs' = outcome.result
                /\ h200_provider_prices' =
                      IF outcome.stored
                      THEN h200_provider_prices \o provider_records
                      ELSE h200_provider_prices
    /\ sb_pc' = "returned"
    /\ sb_ret' = "true"
    /\ UNCHANGED << index_data, snapshots, calls, h200_index_prices, decisions,
                    sb_call, sb_index_data, sb_new_price, sb_gate, sb_insert,
                    sb_index_id >>


\* ------------------------------------------------------ the oracle scripts

orVars == << or_pc, or_script, or_env, or_request, or_call, or_fn, or_prices, or_source,
             or_trace, or_sent, or_receipt, or_tx_hash, or_verify, or_exit >>
chainVars == << chain_txs, audit_log >>
fileVars == << index_data, snapshots >>

\* What a command line asks to publish: how the pairs are given ("provider"
\* for --provider/--price, "csv" for the rows of --csv, "all" for the flags
\* of --all) and the pairs in the order given; "index" and "price" stand for
\* --from-index and for the one price of push_to_contract.py.
Request(mode, pairs) == [mode |-> mode, pairs |-> pairs]
NoRequest == Request("none", << >>)

InitOracle ==
    /\ chain_txs = << >>
    /\ audit_log = [markets |-> << >>, contract |-> << >>]
    /\ or_pc = "idle"
    /\ or_script = "none"
    /\ or_env = "none"
    /\ or_request = NoRequest
    /\ or_call = 0
    /\ or_fn = "none"
    /\ or_prices = << >>
    /\ or_source = 0
    /\ or_trace = << >>
    /\ or_sent = 0
    /\ or_receipt = "none"
    /\ or_tx_hash = 0
    /\ or_verify = "none"
    /\ or_exit = "none"

OracleRunning == or_pc \notin {"idle", "exited"}

\* The keys of H200_PROVIDERS, in the order of the dict, which is also the
\* order in which main reads the flags of --all.
H200_PROVIDERS == << "ORACLE", "AWS", "COREWEAVE", "GCP", "AZURE" >>

Known(provider) ==
    \E i \in 1..Len(H200_PROVIDERS) : H200_PROVIDERS[i] = provider

\* provider_name_map of read_prices_from_index, restricted to H200_PROVIDERS.
ProviderKey(index_provider) ==
    CASE index_provider = "AWS" -> "AWS"
      [] index_provider = "Azure" -> "AZURE"
      [] index_provider = "CoreWeave" -> "COREWEAVE"
      [] index_provider = "Google Cloud" -> "GCP"
      [] index_provider = "Oracle" -> "ORACLE"
      [] OTHER -> "none"

RECURSIVE PricesFromDetails(_)
\* read_prices_from_index: one pair per hyperscaler detail with a known
\* provider; round(effective_price, 4) leaves a whole number of cents as it is.
PricesFromDetails(details) ==
    IF details = << >> THEN << >>
    ELSE LET d == Head(details)
             rest == PricesFromDetails(Tail(details))
         IN  IF ProviderKey(d.provider) = "none" THEN rest
             ELSE << [provider |-> ProviderKey(d.provider),
                      price |-> d.effective_price] >> \o rest

\* PRICE_DECIMALS of both scripts (the ORACLE_DECIMALS default of
\* push_to_contract.py).
PRICE_DECIMALS == 18

\* The prices a script can be asked to publish.
PublishedPrices ==
    CliPrices
    \cup { AllHyperscalers[i].effective_price : i \in 1..Len(AllHyperscalers) }

\* int(price_usd * 10**PRICE_DECIMALS), the price being a float, worked out
\* once for every price.
ScaledPrices ==
    [price \in PublishedPrices |->
        FloatToInt(FloatTimesPow10(FloatOfCents(price), PRICE_DECIMALS))]

PriceScaled(price) == ScaledPrices[price]

\* H200_PROVIDERS[provider]["asset_id"] and H200_ASSET_ID, by their first
\* two bytes.
AssetId(provider) ==
    CASE provider = "ORACLE" -> "0x5d5f"
      [] provider = "AWS" -> "0xb377"
      [] provider = "COREWEAVE" -> "0xa05f"
      [] provider = "GCP" -> "0x0ba2"
      [] provider = "AZURE" -> "0x12b2"
      [] provider = "H200_HOURLY" -> "0x4d85"

\* asset_id, price_scaled of update_single_price and update_price.
SingleArgs(prices) ==
    [asset_ids |-> << AssetId(prices[1].provider) >>,
     new_prices |-> << PriceScaled(prices[1].price) >>]

RECURSIVE BatchArgs(_)
\* asset_ids, new_prices of batch_update_prices: one append to each list per
\* pair, in the order of prices.items().
BatchArgs(prices) ==
    IF prices = << >> THEN [asset_ids |-> << >>, new_prices |-> << >>]
    ELSE LET rest == BatchArgs(Tail(prices))
         IN  [asset_ids |-> << AssetId(Head(prices).provider) >>
                                \o rest.asset_ids,
              new_prices |-> << PriceScaled(Head(prices).price) >>
                                \o rest.new_prices]

\* The update call main picks, always the batched one.
UpdateCallBatchOnly(prices_to_update) == "batchUpdatePrices"

\* main of Push_h200_provider_specific_markets.py: one pair goes through
\* update_single_price, any other number through batch_update_prices.
UpdateCall(prices_to_update) ==
    IF Len(prices_to_update) = 1 THEN "updatePrice" ELSE "batchUpdatePrices"

\* Environment of an oracle script: the private key, the RPC connection and
\* the registration on the oracle contract of the assets to update, which
\* only push_to_contract asks the contract about.
Environments == {"ok", "no_key", "no_connection", "not_registered"}

\* A script that stops before it reaches _send_transaction.
OrStop(script, status) ==
    /\ or_pc' = "exited"
    /\ or_script' = script
    /\ or_fn' = "none"
    /\ or_prices' = << >>
    /\ or_source' = 0
    /\ or_exit' = status

\* A script that reaches its update call with the pairs to publish.
OrProceed(script, fn, prices, source) ==
    /\ or_pc' = "build"
    /\ or_script' = script
    /\ or_fn' = fn
    /\ or_prices' = prices
    /\ or_source' = source
    /\ or_exit' = "none"

OrReset ==
    /\ calls < MaxCalls
    /\ calls' = calls + 1
    /\ or_call' = calls + 1
    /\ or_trace' = << >>
    /\ or_sent' = 0
    /\ or_receipt' = "none"
    /\ or_tx_hash' = 0
    /\ or_verify' = "none"

\* main of Push_h200_provider_specific_markets.py --from-index, up to the
\* update call: one pair uses updatePrice, more use batchUpdatePrices.
MkBegin(env) ==
    /\ OrReset
    /\ or_env' = env
    /\ or_request' = Request("index", << >>)
    /\ LET prices_to_update == PricesFromDetails(index_data.hyperscaler_details)
       IN  IF env \in {"no_key", "no_connection"}
           THEN OrStop("markets", 1)
           ELSE IF index_data = NoSnapshot \/ prices_to_update = << >>
           THEN OrStop("markets", 1)
           ELSE IF \E i \in 1..Len(prices_to_update) :
                      prices_to_update[i].price <= 0
           THEN OrStop("markets", 1)
           ELSE OrProceed("markets", UpdateCall(prices_to_update),
                          prices_to_update, index_data.timestamp)
    /\ UNCHANGED << fileVars, dbVars, sbVars, chainVars >>

\* Pairs a command line can name: two good ones, a price of zero, a
\* negative price, and a provider that H200_PROVIDERS does not have.
RequestPairs ==
    { [provider |-> "AWS", price |-> 265], [provider |-> "GCP", price |-> 455],
      [provider |-> "AWS", price |-> 0], [provider |-> "GCP", price |-> -100],
      [provider |-> "FOO", price |-> 265] }

\* One pair or two.
Requests == [{1} -> RequestPairs] \cup [{1, 2} -> RequestPairs]

\* prices[provider] = price on a dict kept as the sequence of its items: a
\* key the dict has keeps its place and gets the new value.
DictSet(prices, provider, price) ==
    IF \E i \in 1..Len(prices) : prices[i].provider = provider
    THEN [i \in 1..Len(prices) |->
             IF prices[i].provider = provider
             THEN [provider |-> provider, price |-> price] ELSE prices[i]]
    ELSE Append(prices, [provider |-> provider, price |-> price])

RECURSIVE FromPairs(_, _)
\* for provider, price in zip(args.provider, args.price):
\*     prices_to_update[provider.upper()] = price
FromPairs(pairs, prices) ==
    IF pairs = << >> THEN prices
    ELSE FromPairs(Tail(pairs),
                   DictSet(prices, Head(pairs).provider, Head(pairs).price))

RECURSIVE FromCsv(_, _)
\* read_prices_from_csv: a row whose provider is not in H200_PROVIDERS is
\* skipped with a warning, the other rows are kept.
FromCsv(rows, prices) ==
    IF rows = << >> THEN prices
    ELSE FromCsv(Tail(rows),
                 IF Known(Head(rows).provider)
                 THEN DictSet(prices, Head(rows).provider, Head(rows).price)
                 ELSE prices)

RECURSIVE FromAll(_, _)
\* --all: "if args.oracle: prices_to_update["ORACLE"] = args.oracle" and so
\* on for each flag in turn; a flag given twice has its last value, and a
\* value of 0 is taken as a flag not given.
FromAll(flags, pairs) ==
    IF flags = << >> THEN << >>
    ELSE LET given == { i \in 1..Len(pairs) : pairs[i].provider = Head(flags) }
             last == CHOOSE i \in given : \A k \in given : k <= i
         IN  (IF given # { } /\ pairs[last].price # 0
              THEN << pairs[last] >> ELSE << >>)
             \o FromAll(Tail(flags), pairs)

\* prices_to_update as main has it before its validation.
PricesToUpdate(request) ==
    CASE request.mode = "provider" -> FromPairs(request.pairs, << >>)
      [] request.mode = "csv" -> FromCsv(request.pairs, << >>)
      [] request.mode = "all" -> FromAll(H200_PROVIDERS, request.pairs)

\* main of Push_h200_provider_specific_markets.py --provider/--price, --csv
\* or --all, up to _send_transaction.  argparse refuses a flag it does not
\* know (status 2); then the key and the connection, the pairs, the check
\* "price <= 0" of every pair, and in update_single_price or
\* batch_update_prices the ValueError for a provider outside H200_PROVIDERS,
\* which main catches to exit with status 1.
MkBeginRequest(env, request) ==
    /\ OrReset
    /\ or_env' = env
    /\ or_request' = request
    /\ IF /\ request.mode = "all"
          /\ \E i \in 1..Len(request.pairs) : ~Known(request.pairs[i].provider)
       THEN OrStop("markets", 2)
       ELSE IF env \in {"no_key", "no_connection"}
       THEN OrStop("markets", 1)
       ELSE LET prices_to_update == PricesToUpdate(request)
            IN  IF prices_to_update = << >>
                THEN OrStop("markets", 1)
                ELSE IF \E i \in 1..Len(prices_to_update) :
                           prices_to_update[i].price <= 0
                THEN OrStop("markets", 1)
                ELSE IF \E i \in 1..Len(prices_to_update) :
                           ~Known(prices_to_update[i].provider)
                THEN OrStop("markets", 1)
                ELSE OrProceed("markets", UpdateCall(prices_to_update),
                               prices_to_update, 0)
    /\ UNCHANGED << fileVars, dbVars, sbVars, chainVars >>

\* main of push_to_contract.py <price>, up to update_price.
CtBegin(env, price) ==
    /\ OrReset
    /\ or_env' = env
    /\ or_request' = Request("price", << >>)
    /\ IF env # "ok" \/ price <= 0
       THEN OrStop("contract", 1)
       ELSE OrProceed("contract", "updatePrice",
                      << [provider |-> "H200_HOURLY", price |-> price] >>, 0)
    /\ UNCHANGED << fileVars, dbVars, sbVars, chainVars >>

\* An exception inside _send_transaction: nothing catches it before main,
\* which prints the error and exits with status 1.
OrRaise(stages) ==
    /\ or_trace' = or_trace \o stages \o << "Failed" >>
    /\ or_pc' = "exited"
    /\ or_exit' = 1

\* _build_dynamic_fee, get_transaction_count, func.build_transaction
OrBuild(ok) ==
    /\ or_pc = "build"
    /\ IF ok
       THEN /\ or_trace' = or_trace \o << "Building" >>
            /\ or_pc' = "sign"
            /\ or_exit' = or_exit
       ELSE OrRaise(<< "Building" >>)
    /\ UNCHANGED << fileVars, calls, dbVars, sbVars, chainVars, or_script,
                    or_env, or_request, or_call, or_fn, or_prices, or_source, or_sent, or_receipt,
                    or_tx_hash, or_verify >>

\* self.account.sign_transaction(tx)
OrSign(ok) ==
    /\ or_pc = "sign"
    /\ IF ok
       THEN /\ or_trace' = or_trace \o << "Signed" >>
            /\ or_pc' = "send"
            /\ or_exit' = or_exit
       ELSE OrRaise(<< >>)
    /\ UNCHANGED << fileVars, calls, dbVars, sbVars, chainVars, or_script,
                    or_env, or_request, or_call, or_fn, or_prices, or_source, or_sent, or_receipt,
                    or_tx_hash, or_verify >>

\* The transaction as the node holds it.
RawTx ==
    LET args == IF or_fn = "updatePrice" THEN SingleArgs(or_prices)
                ELSE BatchArgs(or_prices)
    IN  [call |-> or_call, script |-> or_script, env |-> or_env, fn |-> or_fn,
         asset_ids |-> args.asset_ids, new_prices |-> args.new_prices,
         prices |-> or_prices, source |-> or_source, status |-> "pending"]

\* self.w3.eth.send_raw_transaction(raw_tx)
OrSend(ok) ==
    /\ or_pc = "send"
    /\ IF ok
       THEN /\ chain_txs' = Append(chain_txs, RawTx)
            /\ or_sent' = or_sent + 1
            /\ or_tx_hash' = Len(chain_txs) + 1
            /\ or_trace' = or_trace \o << "Submitted" >>
            /\ or_pc' = "wait"
            /\ or_exit' = or_exit
       ELSE /\ OrRaise(<< >>)
            /\ UNCHANGED << chain_txs, or_sent, or_tx_hash >>
    /\ UNCHANGED << fileVars, calls, dbVars, sbVars, audit_log, or_script,
                    or_env, or_request, or_call, or_fn, or_prices, or_source, or_receipt, or_verify >>

\* Waiting for the receipt, with a timeout answered by a second attempt.
OrWaitRetry(result) ==
    /\ or_pc = "wait"
    /\ or_receipt' = result
    /\ IF result = "timeout"
       THEN /\ or_pc' = "build"
            /\ or_trace' = or_trace
            /\ or_exit' = or_exit
            /\ chain_txs' = chain_txs
       ELSE /\ chain_txs' = [chain_txs EXCEPT ![or_tx_hash].status = result]
            /\ or_trace' = or_trace \o << "Confirmed" >>
            /\ or_pc' = "finish"
            /\ or_exit' = or_exit
    /\ UNCHANGED << fileVars, calls, dbVars, sbVars, audit_log, or_script,
                    or_env, or_request, or_call, or_fn, or_prices, or_source, or_sent, or_tx_hash,
                    or_verify >>

\* self.w3.eth.wait_for_transaction_receipt(tx_hash, timeout=180): a receipt
\* with status 1 or 0, or TimeExhausted.
OrWait(result) ==
    /\ or_pc = "wait"
    /\ or_receipt' = result
    /\ IF result = "timeout"
       THEN /\ OrRaise(<< >>)
            /\ chain_txs' = chain_txs
       ELSE /\ chain_txs' = [chain_txs EXCEPT ![or_tx_hash].status = result]
            /\ or_trace' = or_trace \o << "Confirmed" >>
            /\ or_pc' = "finish"
            /\ or_exit' = or_exit
    /\ UNCHANGED << fileVars, calls, dbVars, sbVars, audit_log, or_script,
                    or_env, or_request, or_call, or_fn, or_prices, or_source, or_sent, or_tx_hash,
                    or_verify >>

RECURSIVE StoredPrice(_, _)
\* getPrice(asset_id) of the oracle contract: the value written by the last
\* update of the asset that did not revert, 0 before any.
StoredPrice(txs, asset_id) ==
    IF txs = << >> THEN << >>
    ELSE LET tx == txs[Len(txs)]
             hits == { i \in 1..Len(tx.asset_ids) : tx.asset_ids[i] = asset_id }
         IN  IF tx.status = "success" /\ hits # { }
             THEN tx.new_prices[CHOOSE i \in hits : \A k \in hits : k <= i]
             ELSE StoredPrice(SubSeq(txs, 1, Len(txs) - 1), asset_id)

\* get_current_price, times 10**decimals: price_raw as the contract returns
\* it, or 0 when the call raises.
GetCurrentPrice(price_read) ==
    IF price_read THEN StoredPrice(chain_txs, AssetId("H200_HOURLY"))
    ELSE << >>

\* abs(latest_price - price_usd) < 0.000001, times 10**decimals.  Each side is
\* a float within 2^-52 of the exact quotient, and two prices in whole cents
\* are either less than 10^-15 or at least 10^-2 apart, so the comparison is
\* decided by the exact distance.
PriceVerified(price_raw, price) ==
    BigLess(BigDistance(price_raw,
                        BigTimesPow10(BigOf(price), PRICE_DECIMALS - 2)),
            BigTimesPow10(<< 1 >>, PRICE_DECIMALS - 6))

\* What update_price prints after its read-back; the provider-markets
\* script does not read back.
Verification(price_read) ==
    IF or_script # "contract" THEN "none"
    ELSE IF PriceVerified(GetCurrentPrice(price_read), or_prices[1].price)
    THEN "verified"
    ELSE "mismatch"

\* The entry log_update appends; the provider-markets script stores
\* price_scaled with each pair.
LogEntry ==
    [call |-> or_call, tx_hash |-> or_tx_hash, prices |-> or_prices,
     price_scaled |-> IF or_script = "markets"
                      THEN [i \in 1..Len(or_prices) |->
                               PriceScaled(or_prices[i].price)]
                      ELSE << >>,
     batch_update |-> (Len(or_prices) > 1)]

\* Entries a log file keeps.
LogKeep == 100

\* logs[:n], the oldest entries.
FirstEntries(logs, n) ==
    IF Len(logs) <= n THEN logs ELSE SubSeq(logs, 1, n)

\* logs[-n:]
LastEntries(logs, n) ==
    IF Len(logs) <= n THEN logs ELSE SubSeq(logs, Len(logs) - n + 1, Len(logs))

\* The end of update_price, with a mismatch answered by a second submission.
OrFinishResubmit(block_read, price_read) ==
    /\ or_pc = "finish"
    /\ or_verify' = Verification(price_read)
    /\ IF or_verify' = "mismatch"
       THEN /\ audit_log' = audit_log
            /\ or_exit' = or_exit
            /\ or_pc' = "build"
       ELSE /\ IF block_read
               THEN /\ audit_log' =
                         [audit_log EXCEPT
                             ![or_script] =
                                 LastEntries(Append(@, LogEntry), LogKeep)]
                    /\ or_exit' = 0
               ELSE /\ audit_log' = audit_log
                    /\ or_exit' = 1
            /\ or_pc' = "exited"
    /\ UNCHANGED << fileVars, calls, dbVars, sbVars, chain_txs, or_script,
                    or_env, or_request, or_call, or_fn, or_prices, or_source, or_trace, or_sent,
                    or_receipt, or_tx_hash >>

\* The rest of update_single_price / batch_update_prices / update_price and of
\* main once _send_transaction has returned: the receipt is printed,
\* update_price reads the price back and prints whether it matches, tx_hash
\* is returned, the block number is read for the log entry, log_update
\* appends the entry, success is printed and the script ends with status 0.
\* When the block number cannot be read the exception reaches main, which
\* exits with status 1 before anything is logged.
OrFinish(block_read, price_read) ==
    /\ or_pc = "finish"
    /\ or_verify' = Verification(price_read)
    /\ IF block_read
       THEN /\ audit_log' =
                 [audit_log EXCEPT
                     ![or_script] = LastEntries(Append(@, LogEntry), LogKeep)]
            /\ or_exit' = 0
       ELSE /\ audit_log' = audit_log
            /\ or_exit' = 1
    /\ or_pc' = "exited"
    /\ UNCHANGED << fileVars, calls, dbVars, sbVars, chain_txs, or_script,
                    or_env, or_request, or_call, or_fn, or_prices, or_source, or_trace, or_sent,
                    or_receipt, or_tx_hash >>

\* ------------------------------------------------------- provider scrapers

\* The scrapers modelled: <provider>_h200_scraper.py, one class each.
Scrapers == {"GCP", "GenesisCloud", "Spheron", "HydraHost", "Verda",
             "AceCloud", "LeaderGPU", "Seeweb", "Valdi", "Hyperbolic",
             "Crusoe"}

\* self.exchange_apis of the scrapers that convert a currency.
exchange_apis(provider) ==
    CASE provider = "AceCloud" ->
            << "api.exchangerate-api.com/v4/latest/INR",
               "open.er-api.com/v6/latest/INR" >>
      [] provider = "LeaderGPU" ->
            << "api.exchangerate-api.com/v4/latest/EUR",
               "open.er-api.com/v6/latest/EUR",
               "api.frankfurter.app/latest?from=EUR&to=USD" >>
      [] OTHER -> << >>

\* methods of get_h200_prices, in the order of the list.
methods(provider) ==
    CASE provider = "GCP" ->
            << "_try_vantage_pricing", "_try_pricing_page",
               "_try_machine_types_page", "_try_selenium_scraper" >>
      [] provider = "HydraHost" -> << "_try_scraping", "_try_selenium" >>
      [] provider \in {"Seeweb", "Crusoe"} -> << "_scrape", "_selenium" >>
      [] provider = "Hyperbolic" ->
            << "_try_selenium_scraper", "_try_pricing_page" >>
      [] OTHER -> << "_try_pricing_page", "_try_selenium_scraper" >>

\* What an exchange-rate endpoint can answer: an exception or a timeout, a
\* status other than 200, a body without a USD rate, a USD rate of 0, or a
\* USD rate.  Rates are in thousandths: 12 is 0.012 USD per INR.
RateValues(provider) ==
    IF provider = "AceCloud" THEN {11, 12} ELSE {1080, 1100}

RateResponses(provider) ==
    { [status |-> s, usd |-> 0] : s \in {"raise", "non200", "no_usd"} }
    \cup { [status |-> "ok", usd |-> r] : r \in RateValues(provider) \cup {0} }

\* if response.status_code == 200 ... rate = data['rates'].get('USD');
\* if rate: return float(rate)
UsableRate(response) == response.status = "ok" /\ response.usd # 0

\* Numbers a page can show where a scraper looks for a price: USD per hour
\* in cents, EUR per day in cents for LeaderGPU.  For Hyperbolic and Crusoe
\* they include the two ends of the range the scraper compares with.
RawValues(provider) ==
    CASE provider = "LeaderGPU" -> {5000, 21335, 90000}
      [] provider = "Hyperbolic" -> {100, 300, 1000}
      [] provider = "Crusoe" -> {50, 300, 2000}
      [] OTHER -> {40, 300, 500, 700, 2400, 8800}

\* Rows of the AceCloud table: the monthly price in INR and the GPU count.
AceCloudRows ==
    { [monthly |-> 213500, gpus |-> 1], [monthly |-> 1708000, gpus |-> 8],
      [monthly |-> 400000, gpus |-> 2] }

\* Matches of Seeweb's pattern H200...[$ or euro sign]number: the number in
\* cents and the sign in front of it.
SeewebMatches ==
    { [amount |-> 250, symbol |-> "$"], [amount |-> 250, symbol |-> "EUR"],
      [amount |-> 4000, symbol |-> "$"] }

\* Hourly prices of Valdi's listings in cents, and the GPUs of the machines
\* listed: the 10 < price < 50 of the scraper is, by its own comment, the
\* range of 8-GPU instances.
ValdiAmounts == {800, 1200, 2400}
ValdiGpus == {1, 8}

\* Matches of one regular expression on one page.
MaxMatches == 2

\* A page as a strategy sees it: whether it could be fetched, the price the
\* in-page script returned (0 for null), the prices next to the on-demand and
\* the spot label (0 for none), the matches of the price pattern in document
\* order, and the rows of the pricing table.
Pages(provider) ==
    { [fetch |-> "fail", js |-> 0, on_demand |-> 0, spot |-> 0,
       matches |-> << >>, rows |-> << >>] }
    \cup
    IF provider = "AceCloud"
    THEN { [fetch |-> "ok", js |-> 0, on_demand |-> 0, spot |-> 0,
            matches |-> << >>, rows |-> r] :
              r \in SeqsUpTo(AceCloudRows, MaxMatches) }
    ELSE IF provider = "Seeweb"
    THEN { [fetch |-> "ok", js |-> 0, on_demand |-> 0, spot |-> 0,
            matches |-> m, rows |-> << >>] :
              m \in SeqsUpTo(SeewebMatches, MaxMatches) }
    ELSE IF provider = "Valdi"
    THEN { [fetch |-> "ok", js |-> 0, on_demand |-> 0, spot |-> 0,
            matches |-> << >>,
            rows |-> [i \in 1..Len(a) |-> [amount |-> a[i], gpus |-> g]]] :
              a \in SeqsUpTo(ValdiAmounts, MaxMatches), g \in ValdiGpus }
    ELSE IF provider = "Verda"
    THEN { [fetch |-> "ok", js |-> 0, on_demand |-> o, spot |-> s,
            matches |-> m, rows |-> << >>] :
              o \in {0, 300}, s \in {0, 40, 300},
              m \in SeqsUpTo({40, 300, 700}, MaxMatches) }
    ELSE { [fetch |-> "ok", js |-> j, on_demand |-> 0, spot |-> 0,
            matches |-> m, rows |-> << >>] :
              j \in {0} \cup (IF provider \in {"Spheron", "LeaderGPU",
                                              "Hyperbolic"}
                              THEN RawValues(provider) ELSE { }),
              m \in SeqsUpTo(RawValues(provider), MaxMatches) }

\* The range checks with both ends let through: lo <= price <= hi.
WithinClosed(price, lo, hi) == lo <= price /\ price <= hi

\* The range checks of the scrapers, all of them strict: lo < price < hi.
Within(price, lo, hi) == lo < price /\ price < hi

\* The range of _validate_prices (of the any(...) of HydraHost, of the
\* extraction of Seeweb, Valdi and Crusoe, whose loops have no check), in
\* cents.
ValidRange(provider) ==
    CASE provider = "GCP" -> [lo |-> 500, hi |-> 2500]
      [] provider = "GenesisCloud" -> [lo |-> 100, hi |-> 2000]
      [] provider = "Spheron" -> [lo |-> 50, hi |-> 500]
      [] provider = "HydraHost" -> [lo |-> 50, hi |-> 2000]
      [] provider = "Verda" -> [lo |-> 100, hi |-> 1000]
      [] provider = "Seeweb" -> [lo |-> 50, hi |-> 2000]
      [] provider = "Valdi" -> [lo |-> 1000, hi |-> 5000]
      [] provider = "Hyperbolic" -> [lo |-> 100, hi |-> 1000]
      [] provider = "Crusoe" -> [lo |-> 50, hi |-> 2000]

\* f"${x:.2f}" for x = num / den cents: the nearest cent, ties to even.
RoundCents(num, den) ==
    LET q == num \div den
        r == num % den
    IN  IF 2 * r > den \/ (2 * r = den /\ q % 2 = 1) THEN q + 1 ELSE q

\* An entry of a prices dict: the variant and its price, the currency the
\* price is in and the number of GPUs it pays for, the number on the page
\* it comes from and the GPU count that number is for.
Priced(name, price, currency, per, raw, gpus) ==
    [variant |-> name, price |-> price, currency |-> currency, per |-> per,
     raw |-> raw, gpus |-> gpus]

\* An entry in USD for one GPU: a USD price of one GPU taken as it is, or one
\* that was divided by the GPU count or multiplied by the rate to USD.
Variant(name, price, raw, gpus) == Priced(name, price, "USD", 1, raw, gpus)

RECURSIVE FirstWithin(_, _, _)
\* for price_str in matches: if lo < price < hi: return
FirstWithin(matches, lo, hi) ==
    IF matches = << >> THEN 0
    ELSE IF Within(Head(matches), lo, hi) THEN Head(matches)
    ELSE FirstWithin(Tail(matches), lo, hi)

\* The return value of a strategy: the prices found, or an exception.
Found(prices) == [raised |-> FALSE, prices |-> prices]
Raised == [raised |-> TRUE, prices |-> << >>]

\* SpheronH200Scraper._extract_prices
SpheronExtract(page) ==
    LET price == FirstWithin(page.matches, 50, 500)
    IN  IF price = 0 THEN << >>
        ELSE << Variant("H200 141GB (Spheron)", price, price, 1) >>

\* SpheronH200Scraper._try_pricing_page, _try_selenium_scraper
SpheronStrategy(method, page) ==
    IF page.fetch # "ok" THEN Found(<< >>)
    ELSE IF method = "_try_pricing_page" THEN Found(SpheronExtract(page))
    ELSE IF page.js # 0
    THEN Found(IF Within(page.js, 50, 500)
               THEN << Variant("H200 141GB (Spheron)", page.js, page.js, 1) >>
               ELSE << >>)
    ELSE Found(SpheronExtract(page))

\* HydraHostH200Scraper._try_scraping has no try of its own: a failed fetch
\* raises into get_h200_prices.  _try_selenium swallows every exception.
HydraHostStrategy(method, page) ==
    IF page.fetch # "ok"
    THEN IF method = "_try_scraping" THEN Raised ELSE Found(<< >>)
    ELSE LET price == FirstWithin(page.matches, 50, 2000)
         IN  Found(IF price = 0 THEN << >>
                   ELSE << Variant("H200 (HydraHost)", price, price, 1) >>)

\* GenesisCloudH200Scraper._extract_from_tables / _extract_from_text, which
\* both strategies call on the page they fetched.
GenesisCloudStrategy(method, page) ==
    IF page.fetch # "ok" THEN Found(<< >>)
    ELSE LET price == FirstWithin(page.matches, 100, 2000)
         IN  Found(IF price = 0 THEN << >>
                   ELSE << Variant("H200 (Genesis Cloud)", price, price, 1) >>)

RECURSIVE GcpFirst(_, _)
\* The first match that is an instance price (50 < price < 200, divided by
\* the 8 GPUs of an a3-ultragpu-8g) or a per-GPU price (low < price < 20).
GcpFirst(matches, low) ==
    IF matches = << >> THEN << >>
    ELSE IF Within(Head(matches), 5000, 20000)
    THEN << Variant("A3-Ultra (Google Cloud)", RoundCents(Head(matches), 8),
                    Head(matches), 8) >>
    ELSE IF Within(Head(matches), low, 2000)
    THEN << Variant("A3-Ultra (Google Cloud)", Head(matches),
                    Head(matches), 1) >>
    ELSE GcpFirst(Tail(matches), low)

\* GCPH200Scraper._try_vantage_pricing (per-GPU prices above 5), and
\* _extract_from_tables / _extract_from_text of the other three strategies
\* (per-GPU prices above 3).
GCPStrategy(method, page) ==
    IF page.fetch # "ok" THEN Found(<< >>)
    ELSE IF method = "_try_vantage_pricing"
    THEN Found(GcpFirst(page.matches, 500))
    ELSE Found(GcpFirst(page.matches, 300))

Max(S) == CHOOSE x \in S : \A y \in S : y <= x
Min(S) == CHOOSE x \in S : \A y \in S : x <= y

\* VerdaH200Scraper._extract_prices: the labelled prices as they are; without
\* an on-demand label, the highest and the lowest of the prices in range.
VerdaExtract(page) ==
    LET InRange(p) == Within(p, 100, 1000)
        price_values == SelectSeq(page.matches, InRange)
        values == { price_values[i] : i \in 1..Len(price_values) }
        on_demand_price == IF page.on_demand # 0 THEN page.on_demand
                           ELSE IF price_values # << >> THEN Max(values)
                           ELSE 0
        spot_price == IF page.on_demand = 0 /\ Len(price_values) > 1
                      THEN Min(values)
                      ELSE page.spot
    IN  (IF on_demand_price # 0
         THEN << Variant("H200 SXM5 On-Demand (Verda)", on_demand_price,
                         on_demand_price, 1) >>
         ELSE << >>)
        \o (IF spot_price # 0
            THEN << Variant("H200 SXM5 Spot (Verda)", spot_price,
                            spot_price, 1) >>
            ELSE << >>)

\* VerdaH200Scraper._try_selenium_scraper: the labelled prices the in-page
\* script returned, as they are; with neither, the first of all prices that
\* lies between 2 and 5.
VerdaSelenium(page) ==
    LET labelled ==
            (IF page.on_demand # 0
             THEN << Variant("H200 SXM5 On-Demand (Verda)", page.on_demand,
                             page.on_demand, 1) >>
             ELSE << >>)
            \o (IF page.spot # 0
                THEN << Variant("H200 SXM5 Spot (Verda)", page.spot,
                                page.spot, 1) >>
                ELSE << >>)
        price == FirstWithin(page.matches, 200, 500)
    IN  IF labelled # << >> THEN labelled
        ELSE IF price # 0
        THEN << Variant("H200 SXM5 (Verda)", price, price, 1) >>
        ELSE << >>

VerdaStrategy(method, page) ==
    IF page.fetch # "ok" THEN Found(<< >>)
    ELSE IF method = "_try_pricing_page" THEN Found(VerdaExtract(page))
    ELSE Found(VerdaSelenium(page))

\* AceCloudH200Scraper._extract_from_table and the in-page script of
\* _try_selenium_scraper: per_gpu_price = monthly_price / gpu_count for every
\* H200 row, kept here as the pair it is the quotient of.
AceCloudStrategy(method, page) ==
    IF page.fetch # "ok" THEN Found(<< >>)
    ELSE Found([i \in 1..Len(page.rows) |->
                   Priced("per_gpu_price", page.rows[i].monthly, "INR", 1,
                          page.rows[i].monthly, page.rows[i].gpus)])

\* LeaderGPUH200Scraper._try_pricing_page: the first daily price between 100
\* and 500 EUR.  _try_selenium_scraper: the price the in-page script matched,
\* as it is; without one, the same extraction as the static strategy.
LeaderGPUStrategy(method, page) ==
    LET price == IF method = "_try_selenium_scraper" /\ page.js # 0
                 THEN page.js
                 ELSE FirstWithin(page.matches, 10000, 50000)
    IN  IF page.fetch # "ok" \/ price = 0 THEN Found(<< >>)
        ELSE Found(<< Priced("eur_price", price, "EUR", 1, price, 1) >>)

RECURSIVE SeewebFirst(_)
\* for p in re.findall(...): if 0.5 < float(p) < 20: return {...: f"${p}/hr"}.
\* The sign matched is not captured: the number is printed behind a dollar
\* sign whichever it was.
SeewebFirst(matches) ==
    IF matches = << >> THEN << >>
    ELSE IF Within(Head(matches).amount, 50, 2000)
    THEN << Priced("H200 (Seeweb)", Head(matches).amount,
                   IF Head(matches).symbol = "$" THEN "USD"
                   ELSE Head(matches).symbol,
                   1, Head(matches).amount, 1) >>
    ELSE SeewebFirst(Tail(matches))

\* SeewebH200Scraper._scrape has no try of its own; _selenium swallows every
\* exception.
SeewebStrategy(method, page) ==
    IF page.fetch # "ok"
    THEN IF method = "_scrape" THEN Raised ELSE Found(<< >>)
    ELSE Found(SeewebFirst(page.matches))

RECURSIVE ValdiPrices(_, _)
\* ValdiH200Scraper._extract_prices and the in-page script: every listing
\* price between 10 and 50 that is not in the list yet, as it is.
ValdiPrices(rows, prices) ==
    IF rows = << >> THEN prices
    ELSE ValdiPrices(
            Tail(rows),
            IF /\ Within(Head(rows).amount, 1000, 5000)
               /\ \A i \in 1..Len(prices) : prices[i].price # Head(rows).amount
            THEN Append(prices,
                        Priced("price", Head(rows).amount, "USD",
                               Head(rows).gpus, Head(rows).amount,
                               Head(rows).gpus))
            ELSE prices)

\* ValdiH200Scraper._try_pricing_page, _try_selenium_scraper: both catch
\* their exceptions and return what they have.
ValdiStrategy(method, page) ==
    IF page.fetch # "ok" THEN Found(<< >>)
    ELSE Found(ValdiPrices(page.rows, << >>))

\* HyperbolicH200Scraper._extract_prices: the first match between 1 and 10.
HyperbolicExtract(page) ==
    LET price == FirstWithin(page.matches, 100, 1000)
    IN  IF price = 0 THEN << >>
        ELSE << Variant("H200 (Hyperbolic)", price, price, 1) >>

\* HyperbolicH200Scraper._try_pricing_page: the JSON-LD price of the page
\* (page.js) as it is, without one the extraction from the text.
\* _try_selenium_scraper: the price the in-page script returned, the JSON-LD
\* price or else the first match, if it lies between 1 and 10; when the
\* script returned nothing, the extraction from the page source.
HyperbolicStrategy(method, page) ==
    IF page.fetch # "ok" THEN Found(<< >>)
    ELSE IF method = "_try_pricing_page"
    THEN Found(IF page.js # 0
               THEN << Variant("H200 (Hyperbolic)", page.js, page.js, 1) >>
               ELSE HyperbolicExtract(page))
    ELSE LET price == IF page.js # 0 THEN page.js
                      ELSE IF page.matches # << >> THEN Head(page.matches)
                      ELSE 0
         IN  IF price # 0
             THEN Found(IF Within(price, 100, 1000)
                        THEN << Variant("H200 (Hyperbolic)", price, price,
                                        1) >>
                        ELSE << >>)
             ELSE Found(HyperbolicExtract(page))

\* CrusoeH200Scraper._scrape has no try of its own; _selenium swallows every
\* exception.  Both return the first match between 0.5 and 20.
CrusoeStrategy(method, page) ==
    IF page.fetch # "ok"
    THEN IF method = "_scrape" THEN Raised ELSE Found(<< >>)
    ELSE LET price == FirstWithin(page.matches, 50, 2000)
         IN  Found(IF price = 0 THEN << >>
                   ELSE << Variant("H200 (Crusoe)", price, price, 1) >>)

\* method_func()
Strategy(provider, method, page) ==
    CASE provider = "GCP" -> GCPStrategy(method, page)
      [] provider = "GenesisCloud" -> GenesisCloudStrategy(method, page)
      [] provider = "Spheron" -> SpheronStrategy(method, page)
      [] provider = "HydraHost" -> HydraHostStrategy(method, page)
      [] provider = "Verda" -> VerdaStrategy(method, page)
      [] provider = "AceCloud" -> AceCloudStrategy(method, page)
      [] provider = "LeaderGPU" -> LeaderGPUStrategy(method, page)
      [] provider = "Seeweb" -> SeewebStrategy(method, page)
      [] provider = "Valdi" -> ValdiStrategy(method, page)
      [] provider = "Hyperbolic" -> HyperbolicStrategy(method, page)
      [] provider = "Crusoe" -> CrusoeStrategy(method, page)

\* _validate_prices: some variant lies in the range.
ValidatePrices(provider, prices) ==
    \E i \in 1..Len(prices) :
        Within(prices[i].price, ValidRange(provider).lo,
               ValidRange(provider).hi)

\* The condition under which get_h200_prices keeps a strategy's result and
\* leaves the loop: "prices and self._validate_prices(prices)", "if prices"
\* for AceCloud, Seeweb, Valdi and Crusoe, "eur_price and eur_price > 0"
\* for LeaderGPU.
Plausible(provider, prices) ==
    /\ prices # << >>
    /\ CASE provider \in {"AceCloud", "Seeweb", "Valdi", "Crusoe"} -> TRUE
         [] provider = "LeaderGPU" -> prices[1].price > 0
         [] OTHER -> ValidatePrices(provider, prices)

RECURSIVE Gcd(_, _)
Gcd(a, b) == IF b = 0 THEN a ELSE Gcd(b, a % b)

RECURSIVE SumPerGpu(_)
\* sum(all_prices_inr), each price being monthly / gpus: a fraction, kept in
\* lowest terms.
SumPerGpu(prices) ==
    IF prices = << >> THEN [num |-> 0, den |-> 1]
    ELSE LET rest == SumPerGpu(Tail(prices))
             num == Head(prices).price * rest.den
                       + rest.num * Head(prices).gpus
             den == Head(prices).gpus * rest.den
         IN  [num |-> num \div Gcd(num, den), den |-> den \div Gcd(num, den)]

\* Hours of a month and of a day in the conversions.
HoursPerMonth == 730
HoursPerDay == 24

\* The "_exchange_rate" key of a result, kept with the entry it was used
\* for.
WithRate(entry, rate) == entry @@ [exchange_rate |-> rate]

\* AceCloud without the division by the GPU count.
AceCloudResultPerInstance(all_prices_inr, inr_to_usd) ==
    LET total == SumPrices([i \in 1..Len(all_prices_inr) |->
                               all_prices_inr[i].price])
    IN  << WithRate(Variant("H200 (AceCloud)",
                            RoundCents(total * inr_to_usd,
                                       Len(all_prices_inr) * HoursPerMonth
                                          * 10),
                            total, 1),
                    inr_to_usd) >>

\* AceCloud: avg_inr_monthly = sum / len, avg_inr_hourly = avg_inr_monthly /
\* 730, avg_usd_hourly = avg_inr_hourly * inr_to_usd, printed with two
\* decimals.  In cents and thousandths:
\* sum * rate / 1000 / len / 730 * 100.
AceCloudResult(all_prices_inr, inr_to_usd) ==
    LET total == SumPerGpu(all_prices_inr)
    IN  << WithRate(Variant("H200 (AceCloud)",
                            RoundCents(total.num * inr_to_usd,
                                       total.den * Len(all_prices_inr)
                                          * HoursPerMonth * 10),
                            total.num, total.den),
                    inr_to_usd) >>

\* LeaderGPU: hourly_eur = eur_price / 24, hourly_usd = hourly_eur *
\* eur_to_usd, printed with two decimals.
LeaderGPUResult(eur_price, eur_to_usd) ==
    << WithRate(Variant("H200 141GB (LeaderGPU)",
                        RoundCents(eur_price * eur_to_usd, HoursPerDay * 1000),
                        eur_price, 1),
                eur_to_usd) >>

\* GCPH200Scraper._normalize_prices: the average of the variants.
GCPNormalize(prices) ==
    IF prices = << >> THEN << >>
    ELSE << Variant("A3-Ultra (GCP)",
                    RoundCents(SumPrices([i \in 1..Len(prices) |->
                                             prices[i].price]),
                               Len(prices)),
                    prices[1].raw, prices[1].gpus) >>

\* Valdi: avg_price = sum(all_prices) / len(all_prices), printed with two
\* decimals; nothing is divided by a GPU count.
ValdiResult(all_prices) ==
    << Priced("H200 (Valdi Avg)",
              RoundCents(SumPrices([i \in 1..Len(all_prices) |->
                                       all_prices[i].price]),
                         Len(all_prices)),
              "USD", all_prices[1].per,
              SumPrices([i \in 1..Len(all_prices) |-> all_prices[i].raw]),
              all_prices[1].gpus) >>

\* What the loop stores when it keeps a strategy's result:
\* h200_prices.update(prices), all_prices_inr.extend(prices), and for
\* LeaderGPU the converted price.
Kept(provider, prices, rate) ==
    IF provider = "LeaderGPU" THEN LeaderGPUResult(prices[1].price, rate)
    ELSE prices

\* What get_h200_prices returns after the loop.
Returned(provider, h200_prices, rate) ==
    IF h200_prices = << >> THEN << >>
    ELSE CASE provider = "GCP" -> GCPNormalize(h200_prices)
           [] provider = "AceCloud" -> AceCloudResult(h200_prices, rate)
           [] provider = "Valdi" -> ValdiResult(h200_prices)
           [] OTHER -> h200_prices

scVars == << sc_pc, sc_provider, sc_rate, sc_queried, sc_invoked,
             sc_h200_prices, sc_result >>

InitScraper ==
    /\ sc_pc = "idle"
    /\ sc_provider = "none"
    /\ sc_rate = 0
    /\ sc_queried = << >>
    /\ sc_invoked = << >>
    /\ sc_h200_prices = << >>
    /\ sc_result = << >>

ScraperRunning == sc_pc \notin {"idle", "returned", "raised"}

\* main of a scraper: scraper = <Provider>H200Scraper(), then
\* get_h200_prices() up to its first network call.
ScBegin(provider) ==
    /\ calls < MaxCalls
    /\ calls' = calls + 1
    /\ sc_provider' = provider
    /\ sc_rate' = 0
    /\ sc_queried' = << >>
    /\ sc_invoked' = << >>
    /\ sc_h200_prices' = << >>
    /\ sc_result' = << >>
    /\ sc_pc' = IF exchange_apis(provider) # << >> THEN "rate" ELSE "methods"

\* The rate loop when the endpoints are exhausted: a built-in rate.
GetRateDefault(response) ==
    LET apis == exchange_apis(sc_provider)
        n == Len(sc_queried) + 1
    IN  /\ sc_pc = "rate"
        /\ sc_queried' = Append(sc_queried,
                                [api |-> apis[n], response |-> response])
        /\ IF UsableRate(response)
           THEN sc_rate' = response.usd /\ sc_pc' = "methods"
           ELSE IF n = Len(apis)
           THEN sc_rate' = Max(RateValues(sc_provider)) /\ sc_pc' = "methods"
           ELSE sc_rate' = sc_rate /\ sc_pc' = "rate"
        /\ UNCHANGED << calls, sc_provider, sc_invoked, sc_h200_prices,
                        sc_result >>

\* The rate loop without its return: every endpoint is queried and the last
\* usable rate is the one kept.
GetRateLast(response) ==
    LET apis == exchange_apis(sc_provider)
        n == Len(sc_queried) + 1
    IN  /\ sc_pc = "rate"
        /\ sc_queried' = Append(sc_queried,
                                [api |-> apis[n], response |-> response])
        /\ sc_rate' = IF UsableRate(response) THEN response.usd ELSE sc_rate
        /\ sc_pc' = IF n < Len(apis) THEN "rate"
                    ELSE IF sc_rate' # 0 THEN "methods"
                    ELSE "returned"
        /\ UNCHANGED << calls, sc_provider, sc_invoked, sc_h200_prices,
                        sc_result >>

\* One turn of the loop of get_inr_to_usd_rate / get_eur_to_usd_rate: the next
\* endpoint is queried; a usable USD rate is returned at once, anything else
\* moves on.  After the last endpoint the function returns None and
\* get_h200_prices returns {}.
GetRate(response) ==
    LET apis == exchange_apis(sc_provider)
        n == Len(sc_queried) + 1
    IN  /\ sc_pc = "rate"
        /\ sc_queried' = Append(sc_queried,
                                [api |-> apis[n], response |-> response])
        /\ IF UsableRate(response)
           THEN sc_rate' = response.usd /\ sc_pc' = "methods"
           ELSE IF n = Len(apis)
           THEN sc_rate' = sc_rate /\ sc_pc' = "returned"
           ELSE sc_rate' = sc_rate /\ sc_pc' = "rate"
        /\ UNCHANGED << calls, sc_provider, sc_invoked, sc_h200_prices,
                        sc_result >>

\* What the loop of get_h200_prices has seen of one strategy.
Invocation(method, out) ==
    [method |-> method, raised |-> out.raised, prices |-> out.prices]

\* The loop without its break: every strategy is run.
TryMethodNoBreak(page) ==
    LET method == methods(sc_provider)[Len(sc_invoked) + 1]
        out == Strategy(sc_provider, method, page)
        keep == ~out.raised /\ Plausible(sc_provider, out.prices)
    IN  /\ sc_pc = "methods"
        /\ sc_invoked' = Append(sc_invoked, Invocation(method, out))
        /\ sc_h200_prices' = IF keep
                             THEN Kept(sc_provider, out.prices, sc_rate)
                             ELSE sc_h200_prices
        /\ sc_pc' = IF Len(sc_invoked') = Len(methods(sc_provider))
                    THEN "after" ELSE "methods"
        /\ UNCHANGED << calls, sc_provider, sc_rate, sc_queried, sc_result >>

\* The loop without its except: an exception of a strategy leaves
\* get_h200_prices.
TryMethodAbort(page) ==
    LET method == methods(sc_provider)[Len(sc_invoked) + 1]
        out == Strategy(sc_provider, method, page)
        keep == ~out.raised /\ Plausible(sc_provider, out.prices)
    IN  /\ sc_pc = "methods"
        /\ sc_invoked' = Append(sc_invoked, Invocation(method, out))
        /\ sc_h200_prices' = IF keep
                             THEN Kept(sc_provider, out.prices, sc_rate)
                             ELSE sc_h200_prices
        /\ sc_pc' = IF out.raised THEN "raised"
                    ELSE IF keep \/ Len(sc_invoked') = Len(methods(sc_provider))
                    THEN "after" ELSE "methods"
        /\ UNCHANGED << calls, sc_provider, sc_rate, sc_queried, sc_result >>

\* The loop fetching the rate again before each strategy.
TryMethodRefetch(page) ==
    LET method == methods(sc_provider)[Len(sc_invoked) + 1]
        out == Strategy(sc_provider, method, page)
        keep == ~out.raised /\ Plausible(sc_provider, out.prices)
        apis == exchange_apis(sc_provider)
        rate == IF apis = << >> THEN sc_rate ELSE Min(RateValues(sc_provider))
    IN  /\ sc_pc = "methods"
        /\ sc_rate' = rate
        /\ sc_queried' =
              IF apis = << >> THEN sc_queried
              ELSE Append(sc_queried,
                          [api |-> apis[1],
                           response |-> [status |-> "ok", usd |-> rate]])
        /\ sc_invoked' = Append(sc_invoked, Invocation(method, out))
        /\ sc_h200_prices' = IF keep
                             THEN Kept(sc_provider, out.prices, rate)
                             ELSE sc_h200_prices
        /\ sc_pc' = IF keep \/ Len(sc_invoked') = Len(methods(sc_provider))
                    THEN "after" ELSE "methods"
        /\ UNCHANGED << calls, sc_provider, sc_result >>

\* One turn of "for method_name, method_func in methods": the strategy is
\* run inside try; a result that passes the check is kept and ends the loop
\* (break); an exception or any other result moves on to the next strategy.
TryMethod(page) ==
    LET method == methods(sc_provider)[Len(sc_invoked) + 1]
        out == Strategy(sc_provider, method, page)
        keep == ~out.raised /\ Plausible(sc_provider, out.prices)
    IN  /\ sc_pc = "methods"
        /\ sc_invoked' = Append(sc_invoked, Invocation(method, out))
        /\ sc_h200_prices' = IF keep
                             THEN Kept(sc_provider, out.prices, sc_rate)
                             ELSE sc_h200_prices
        /\ sc_pc' = IF keep \/ Len(sc_invoked') = Len(methods(sc_provider))
                    THEN "after" ELSE "methods"
        /\ UNCHANGED << calls, sc_provider, sc_rate, sc_queried, sc_result >>

\* The code after the loop: {} when nothing was kept, otherwise the prices
\* kept, normalized or converted.  HydraHost writes its JSON file before it
\* returns, outside any try, and so do Seeweb and Crusoe: a failed write
\* raises.
AfterLoop(saved) ==
    LET result == Returned(sc_provider, sc_h200_prices, sc_rate)
    IN  /\ sc_pc = "after"
        /\ IF sc_provider \in {"HydraHost", "Seeweb", "Crusoe"}
              /\ result # << >>
              /\ ~saved
           THEN sc_pc' = "raised" /\ sc_result' = << >>
           ELSE sc_pc' = "returned" /\ sc_result' = result
        /\ UNCHANGED << calls, sc_provider, sc_rate, sc_queried, sc_invoked,
                        sc_h200_prices >>

\* ------------------------------------------------------------ log_update

\* log_update calls on one log file in one behaviour, and the reads and
\* writes among them that fail or find the file damaged.
MaxLogUpdates == 103
MaxLogFaults == 1

lgVars == << lg_file, lg_k, lg_read, lg_write, lg_raised, lg_faults >>

\* A file by what it holds: nothing ("missing"), a JSON list, JSON of
\* another type, or no JSON at all (a write that stopped half way leaves
\* that).
FileOf(kind, logs) == [kind |-> kind, logs |-> logs]
NoFile == FileOf("missing", << >>)
Damaged == {"not_list", "garbage"}

\* h200_price_update_log.json / h200_oracle_update_log.json before the first
\* update.
InitLog ==
    /\ lg_file = NoFile
    /\ lg_k = 0
    /\ lg_read = "none"
    /\ lg_write = "none"
    /\ lg_raised = FALSE
    /\ lg_faults = 0

\* How the read of log_update can end: no file, the list in the file, a
\* value that is not a list, or an exception of open / json.load.
ReadLog(file, read_error) ==
    IF file.kind = "missing" THEN "missing"
    ELSE IF read_error \/ file.kind = "garbage" THEN "error"
    ELSE IF file.kind = "not_list" THEN "not_list"
    ELSE "ok"

\* logs before the append, with whatever list the file held kept.
LoadedLogsKept(file, read_error) == file.logs

\* logs before the append: the list read, [] in every other case.
LoadedLogs(file, read_error) ==
    IF ReadLog(file, read_error) = "ok" THEN file.logs ELSE << >>

\* The file after the write: the new list, the old content when open fails,
\* a torn file when json.dump fails.
WrittenLog(file, logs, write) ==
    CASE write = "ok" -> FileOf("list", logs)
      [] write = "open_failed" -> file
      [] write = "dump_failed" -> FileOf("garbage", << >>)

WriteOutcomes == {"ok", "open_failed", "dump_failed"}

\* log_update once log_entry is built: the file is read if it exists, the
\* entry is appended, the last 100 entries are kept and written back; an
\* exception of the write is caught and printed.
LogUpdate(entry, read_error, write) ==
    LET logs == LastEntries(Append(LoadedLogs(lg_file, read_error), entry),
                            LogKeep)
    IN  /\ lg_k < MaxLogUpdates
        /\ lg_k' = lg_k + 1
        /\ lg_read' = ReadLog(lg_file, read_error)
        /\ lg_write' = write
        /\ lg_raised' = FALSE
        /\ lg_file' = WrittenLog(lg_file, logs, write)
        /\ LET faults == (IF lg_read' \in {"error", "not_list"} THEN 1 ELSE 0)
                         + (IF write # "ok" THEN 1 ELSE 0)
           IN  /\ lg_faults + faults <= MaxLogFaults
               /\ lg_faults' = lg_faults + faults

\* Something other than log_update replaces the file by JSON that is not a
\* list.
LogDamage ==
    /\ lg_file.kind \notin Damaged
    /\ lg_faults < MaxLogFaults
    /\ lg_faults' = lg_faults + 1
    /\ lg_file' = FileOf("not_list", << >>)
    /\ UNCHANGED << lg_k, lg_read, lg_write, lg_raised >>

\* ------------------------------------------- push_to_supabase processes

\* OS processes that can run push_to_supabase.py; each has its own client
\* and its own new_price, the table is the one they share.
Procs == {1, 2}

rnVars == << rn_pc, rn_call, rn_price >>

InitRuns ==
    /\ rn_pc = [p \in Procs |-> "idle"]
    /\ rn_call = [p \in Procs |-> 0]
    /\ rn_price = [p \in Procs |-> 0]

\* Processes started whenever the caller likes, one beside another.
MayStartAnyTime(p) == TRUE

\* The scheduler starts a process only when none is between its start and
\* its return.
MayStart(p) == \A q \in Procs : rn_pc[q] \in {"idle", "returned"}

\* main and the head of push_to_supabase in process p, configured, with a
\* snapshot of the given final_index_price.
RnBegin(p, price) ==
    /\ rn_pc[p] \in {"idle", "returned"}
    /\ MayStart(p)
    /\ calls < MaxCalls
    /\ calls' = calls + 1
    /\ rn_call' = [rn_call EXCEPT ![p] = calls + 1]
    /\ rn_price' = [rn_price EXCEPT ![p] = price]
    /\ rn_pc' = [rn_pc EXCEPT ![p] = "validate"]
    /\ UNCHANGED dbVars

\* if not validate_price(supabase, new_price): return False, in process p.
RnValidate(p, error) ==
    /\ rn_pc[p] = "validate"
    /\ LET response == [error |-> error,
                        data |-> LatestRows(h200_index_prices, 2)]
           accepted == ValidatePrice(response, rn_price[p])
       IN  /\ decisions' = decisions \cup
                 { [call |-> rn_call[p], timestamp |-> 0,
                    price |-> rn_price[p], error |-> error,
                    history |-> [i \in 1..Len(response.data) |->
                                    response.data[i].index_price],
                    accepted |-> accepted] }
           /\ rn_pc' = [rn_pc EXCEPT
                           ![p] = IF accepted THEN "insert" ELSE "returned"]
    /\ UNCHANGED << calls, h200_index_prices, h200_provider_prices, rn_call,
                    rn_price >>

\* supabase.table('h200_index_prices').insert(insert_data).execute(), in
\* process p, and the rest of the run.
RnInsert(p, outcome) ==
    /\ rn_pc[p] = "insert"
    /\ h200_index_prices' =
          IF outcome.stored
          THEN Append(h200_index_prices,
                      [id |-> Len(h200_index_prices) + 1,
                       index_price |-> rn_price[p], timestamp |-> 0,
                       call |-> rn_call[p]])
          ELSE h200_index_prices
    /\ rn_pc' = [rn_pc EXCEPT ![p] = "returned"]
    /\ UNCHANGED << calls, h200_provider_prices, decisions, rn_call,
                    rn_price >>

\* ------------------------------------------------------- transaction fees

\* _send_transaction calls in one behaviour.
MaxSends == 2

feVars == << fe_gas_price, fe_nonce, fe_pending, fe_txs >>

\* self.w3.to_wei(1, "gwei")
Gwei == BigTimesPow10(<< 1 >>, 9)

\* max(a, b) of two integers.
BigMax(a, b) == IF BigLess(a, b) THEN b ELSE a

\* Gas prices a node can answer, in wei: none, one wei short of a gwei, a
\* gwei, one wei more, thirty gwei.
GasPrices ==
    { << >>, BigOf(999999999), Gwei, BigTimes(Gwei, 1, 1),
      BigTimes(Gwei, 30, 0) }

InitFee ==
    /\ fe_gas_price = Gwei
    /\ fe_nonce = 0
    /\ fe_pending = FALSE
    /\ fe_txs = << >>

\* The fee without the floor of twice the priority fee.
BuildDynamicFeeNoFloor(base_fee) ==
    [max_fee |-> BigTimes(base_fee, 2, 0), max_priority |-> Gwei]

\* _build_dynamic_fee, base_fee being what self.w3.eth.gas_price answered:
\* max_priority = to_wei(1, "gwei"); max_fee = max(base_fee * 2,
\* max_priority * 2).
BuildDynamicFee(base_fee) ==
    LET max_priority == Gwei
    IN  [max_fee |-> BigMax(BigTimes(base_fee, 2, 0),
                            BigTimes(max_priority, 2, 0)),
         max_priority |-> max_priority]

\* How a _send_transaction call can end: an exception before the
\* transaction is built, a transaction the node refuses, no receipt within
\* the timeout, or a receipt with status 1 or 0.
SendOutcomes == {"raised", "refused", "timeout", "success", "reverted"}

\* _send_transaction: the fee is worked out from the gas price read now, the
\* nonce is the transaction count read now, the transaction is built,
\* signed, sent and waited for.  A mined transaction moves the count on; one
\* that timed out stays pending under its nonce.
SendTransaction(outcome) ==
    LET fee == BuildDynamicFee(fe_gas_price)
        tx == [base_fee |-> fe_gas_price,
               nonce |-> fe_nonce,
               maxFeePerGas |-> fee.max_fee,
               maxPriorityFeePerGas |-> fee.max_priority,
               outcome |-> outcome]
    IN  /\ Len(fe_txs) < MaxSends
        /\ fe_txs' = IF outcome = "raised" THEN fe_txs ELSE Append(fe_txs, tx)
        /\ outcome = "raised" => UNCHANGED << fe_nonce, fe_pending >>
        /\ outcome = "refused" => UNCHANGED << fe_nonce, fe_pending >>
        /\ outcome = "timeout" => fe_nonce' = fe_nonce /\ fe_pending' = TRUE
        /\ outcome \in {"success", "reverted"} =>
              fe_nonce' = fe_nonce + 1 /\ fe_pending' = FALSE
        /\ UNCHANGED fe_gas_price

\* The network between two calls: the gas price moves.
NetGasPrice(gas_price) ==
    /\ gas_price # fe_gas_price
    /\ fe_gas_price' = gas_price
    /\ UNCHANGED << fe_nonce, fe_pending, fe_txs >>

\* The network between two calls: a pending transaction is mined.
NetMine ==
    /\ fe_pending
    /\ fe_pending' = FALSE
    /\ fe_nonce' = fe_nonce + 1
    /\ UNCHANGED << fe_gas_price, fe_txs >>

\* ---------------------------------------------------------- specification

vars == << index_data, snapshots, calls, h200_index_prices,
           h200_provider_prices, decisions, sbVars, chain_txs, audit_log,
           orVars, scVars, lgVars, feVars, rnVars >>

Init == InitDB /\ InitOracle /\ InitScraper /\ InitLog /\ InitFee
        /\ InitRuns

NoScriptRunning == ~SupabaseRunning /\ ~OracleRunning /\ ~ScraperRunning

\* The scheduler starts the aggregator or a script only when nothing runs.
RunAggregate ==
    \E price \in NewPrices, hyper \in Prefixes(AllHyperscalers),
       neo \in Prefixes(AllNeoclouds) :
        /\ NoScriptRunning
        /\ Aggregate(price, hyper, neo)
        /\ UNCHANGED << calls, dbVars, sbVars, chainVars, orVars, scVars, lgVars, feVars, rnVars >>

RunSupabase ==
    \E configured \in BOOLEAN :
        /\ NoScriptRunning
        /\ SbBegin(configured)
        /\ UNCHANGED << chainVars, orVars, scVars, lgVars, feVars, rnVars >>

RunMarkets ==
    \E env \in Environments :
        NoScriptRunning /\ MkBegin(env) /\ UNCHANGED << scVars, lgVars, feVars, rnVars >>

RunContract ==
    \E env \in Environments, price \in CliPrices :
        NoScriptRunning /\ CtBegin(env, price) /\ UNCHANGED << scVars, lgVars, feVars, rnVars >>

StepValidate ==
    \E error \in BOOLEAN : SbValidate(error) /\ UNCHANGED << chainVars, orVars, scVars, lgVars, feVars, rnVars >>

StepInsertIndex ==
    \E outcome \in InsertOutcomes :
        SbInsertIndex(outcome) /\ UNCHANGED << chainVars, orVars, scVars, lgVars, feVars, rnVars >>

StepPushProviders ==
    \E outcome \in InsertOutcomes :
        SbPushProviders(outcome) /\ UNCHANGED << chainVars, orVars, scVars, lgVars, feVars, rnVars >>

StepBuild == \E ok \in BOOLEAN : OrBuild(ok) /\ UNCHANGED << scVars, lgVars, feVars, rnVars >>

StepSign == \E ok \in BOOLEAN : OrSign(ok) /\ UNCHANGED << scVars, lgVars, feVars, rnVars >>

StepSend == \E ok \in BOOLEAN : OrSend(ok) /\ UNCHANGED << scVars, lgVars, feVars, rnVars >>

StepWait ==
    \E result \in {"success", "reverted", "timeout"} :
        OrWait(result) /\ UNCHANGED << scVars, lgVars, feVars, rnVars >>

StepFinish ==
    \E block_read \in BOOLEAN, price_read \in BOOLEAN :
        OrFinish(block_read, price_read) /\ UNCHANGED << scVars, lgVars, feVars, rnVars >>

RunMarketsRequest ==
    \E env \in Environments, mode \in {"provider", "csv", "all"},
       pairs \in Requests :
        /\ NoScriptRunning
        /\ MkBeginRequest(env, Request(mode, pairs))
        /\ UNCHANGED << scVars, lgVars, feVars, rnVars >>

\* What the scrapers leave alone: the snapshot file, the tables, the chain.
restVars == << index_data, snapshots, dbVars, sbVars, chainVars, orVars,
              lgVars, feVars, rnVars >>

RunScraper ==
    \E provider \in Scrapers :
        NoScriptRunning /\ ScBegin(provider) /\ UNCHANGED restVars

StepGetRate ==
    \E response \in RateResponses(sc_provider) :
        GetRate(response) /\ UNCHANGED restVars

StepTryMethod ==
    \E page \in Pages(sc_provider) : TryMethod(page) /\ UNCHANGED restVars

StepAfterLoop == \E saved \in BOOLEAN : AfterLoop(saved) /\ UNCHANGED restVars

\* push_to_supabase.py alone, fed by the aggregator.
NextDB ==
    \/ RunAggregate
    \/ RunSupabase
    \/ StepValidate
    \/ StepInsertIndex
    \/ StepPushProviders

\* The two oracle scripts alone, fed by the aggregator.
NextOracle ==
    \/ RunAggregate
    \/ RunMarkets
    \/ RunContract
    \/ StepBuild
    \/ StepSign
    \/ StepSend
    \/ StepWait
    \/ StepFinish

\* Push_h200_provider_specific_markets.py alone, given its prices on the
\* command line or in a CSV file.
NextRequest ==
    \/ RunMarketsRequest
    \/ StepBuild
    \/ StepSign
    \/ StepSend
    \/ StepWait
    \/ StepFinish

\* The provider scrapers alone.
NextScraper ==
    \/ RunScraper
    \/ StepGetRate
    \/ StepTryMethod
    \/ StepAfterLoop

\* What log_update leaves alone.
notLogVars == << index_data, snapshots, calls, dbVars, sbVars, chainVars,
                 orVars, scVars, feVars, rnVars >>

\* The entry of the k-th log_update is named by k, the order of its
\* timestamp.
StepLogUpdate ==
    \E read_error \in BOOLEAN, write \in WriteOutcomes :
        LogUpdate(lg_k + 1, read_error, write) /\ UNCHANGED notLogVars

StepLogDamage == LogDamage /\ UNCHANGED notLogVars

\* log_update alone, on one log file.
NextLog ==
    \/ StepLogUpdate
    \/ StepLogDamage

\* What _send_transaction's fee and nonce leave alone.
notFeeVars == << index_data, snapshots, calls, dbVars, sbVars, chainVars,
                 orVars, scVars, lgVars, rnVars >>

StepSendTransaction ==
    \E outcome \in SendOutcomes :
        SendTransaction(outcome) /\ UNCHANGED notFeeVars

StepNetGasPrice ==
    \E gas_price \in GasPrices : NetGasPrice(gas_price) /\ UNCHANGED notFeeVars

StepNetMine == NetMine /\ UNCHANGED notFeeVars

\* _send_transaction called again and again on a network that moves.
NextFee ==
    \/ StepSendTransaction
    \/ StepNetGasPrice
    \/ StepNetMine

\* What the push_to_supabase processes leave alone.
notRunVars == << index_data, snapshots, sbVars, chainVars, orVars, scVars,
                 lgVars, feVars >>

StepRnBegin ==
    \E p \in Procs, price \in NewPrices :
        RnBegin(p, price) /\ UNCHANGED notRunVars

StepRnValidate ==
    \E p \in Procs, error \in BOOLEAN :
        RnValidate(p, error) /\ UNCHANGED notRunVars

StepRnInsert ==
    \E p \in Procs, outcome \in InsertOutcomes :
        RnInsert(p, outcome) /\ UNCHANGED notRunVars

\* push_to_supabase.py in its processes, started by the scheduler.
NextRuns ==
    \/ StepRnBegin
    \/ StepRnValidate
    \/ StepRnInsert

\* The publishing pipeline: every publishing script, in any order.  The
\* scrapers feed the aggregator, whose snapshots RunAggregate draws freely.
Next == NextDB \/ NextOracle

SpecDB == Init /\ [][NextDB]_vars

\* The oracle scripts never read the tables: they start from empty ones.
InitNoRows == Init /\ h200_index_prices = << >>

SpecOracle == InitNoRows /\ [][NextOracle]_vars

Spec == Init /\ [][Next]_vars

SpecScraper == InitNoRows /\ [][NextScraper]_vars

SpecLog == InitNoRows /\ [][NextLog]_vars

SpecFee == InitNoRows /\ [][NextFee]_vars

SpecRequest == InitNoRows /\ [][NextRequest]_vars

SpecRuns == Init /\ [][NextRuns]_vars


\* ------------------------------------------------- properties: the database

IndexRows == { h200_index_prices[i] : i \in 1..Len(h200_index_prices) }

ProviderRowsOfCall(c) ==
    { i \in 1..Len(h200_provider_prices) : h200_provider_prices[i].call = c }

\* The verdicts reached with the history read and two rows in it.
FullDecisions == { d \in decisions : ~d.error /\ Len(d.history) = 2 }

\* C1: every row push_to_supabase has put in the index table was let through
\* by validate_price in the same call, for the same snapshot and price, and
\* the call is past the gate only with the verdict "accepted".
C1_InsertOnlyAfterGate ==
    /\ \A r \in IndexRows :
          r.call # 0 =>
             \E d \in decisions :
                /\ d.call = r.call
                /\ d.timestamp = r.timestamp
                /\ d.price = r.index_price
                /\ d.accepted
    /\ sb_pc \in {"insert", "providers"} => sb_gate = "accepted"
    /\ sb_insert # "none" => sb_gate = "accepted"

\* A row stored by a call whose gate compared the price with two rows.
C1_Witness ==
    \E r \in IndexRows :
       /\ r.call # 0
       /\ \E d \in FullDecisions : d.call = r.call /\ d.accepted

\* C2: a snapshot the gate has rejected reaches neither sink: the rejecting
\* call stores no index or provider row, and no transaction submitted to the
\* oracle carries prices read from that snapshot.
C2_RejectedReachesNoSink ==
    \A d \in decisions :
       ~d.accepted =>
          /\ \A r \in IndexRows : r.call # d.call
          /\ ProviderRowsOfCall(d.call) = {}
          /\ \A i \in 1..Len(chain_txs) : chain_txs[i].source # d.timestamp

\* C3: with two rows retrieved, the price is accepted exactly when
\* 0.75 * avg <= price <= 1.25 * avg for avg = (p1 + p2) / 2, that is when
\* 3 * (p1 + p2) <= 8 * price <= 5 * (p1 + p2); after 4.00 and 4.20 the
\* price 5.00 is accepted and 5.20 is rejected.
C3_AcceptedIffWithinQuarter ==
    \A d \in FullDecisions :
       LET total == d.history[1] + d.history[2]
       IN  /\ d.accepted <=>
                (3 * total <= 8 * d.price /\ 8 * d.price <= 5 * total)
           /\ (total = 820 /\ d.price = 500) => d.accepted
           /\ (total = 820 /\ d.price = 520) => ~d.accepted

\* A price exactly on the upper bound, accepted, and one on the lower bound.
C3_Witness ==
    \E d \in FullDecisions :
       /\ d.accepted
       /\ \/ 8 * d.price = 5 * (d.history[1] + d.history[2])
          \/ 8 * d.price = 3 * (d.history[1] + d.history[2])

\* C4: with the history read and fewer than two rows in it, every price is
\* accepted.
C4_BootstrapAccepts ==
    \A d \in decisions :
       (~d.error /\ Len(d.history) < 2) => d.accepted

\* One row in the table and a price more than 25% above it, accepted.
C4_Witness ==
    \E d \in decisions :
       /\ ~d.error
       /\ Len(d.history) = 1
       /\ 4 * d.price > 5 * d.history[1]
       /\ d.accepted

\* C5: when reading the history fails, validate_price returns True, and the
\* call goes on to the index insert.
C5_GateFailsOpen ==
    /\ \A d \in decisions : d.error => d.accepted
    /\ \A d \in decisions :
          (d.error /\ d.call = sb_call) =>
             /\ sb_gate = "accepted"
             /\ sb_pc \in {"insert", "providers", "returned"}
             /\ sb_pc = "returned" => sb_insert # "none"

\* The history could not be read, the price is far from the last two rows,
\* and the row is stored.
C5_Witness ==
    \E d \in decisions :
       /\ d.error
       /\ Len(d.history) = 2
       /\ 8 * d.price > 5 * (d.history[1] + d.history[2])
       /\ \E r \in IndexRows : r.call = d.call /\ r.index_price = d.price

\* C6: every provider row points at an index row stored by the same call, and
\* a call whose index insert raised or returned no data has not entered
\* push_hyperscaler_prices and has stored no provider row.
C6_NoObservationWithoutSnapshot ==
    /\ \A i \in 1..Len(h200_provider_prices) :
          LET pr == h200_provider_prices[i]
          IN  \E r \in IndexRows : r.id = pr.index_id /\ r.call = pr.call
    /\ sb_insert \in {"nodata", "raise"} =>
          /\ sb_pc = "returned"
          /\ sb_obs = "none"
          /\ ProviderRowsOfCall(sb_call) = {}

\* The index insert returned no data although the snapshot has hyperscalers.
C6_Witness ==
    /\ sb_pc = "returned"
    /\ sb_insert = "nodata"
    /\ sb_index_data.hyperscaler_details # << >>

\* C7: when the index row is stored and the provider insert fails (exception,
\* empty response, or no record to insert), push_to_supabase returns True and
\* the index row is still in the table.
C7_SnapshotKeptOnObservationFailure ==
    (sb_pc = "returned" /\ sb_insert = "ok"
        /\ sb_obs \in {"raise", "nodata", "empty"}) =>
       /\ sb_ret = "true"
       /\ \E r \in IndexRows :
             /\ r.id = sb_index_id
             /\ r.call = sb_call
             /\ r.index_price = sb_new_price

\* The provider insert raised after the index row was stored.
C7_Witness ==
    /\ sb_pc = "returned"
    /\ sb_insert = "ok"
    /\ sb_obs = "raise"
    /\ ProviderRowsOfCall(sb_call) = {}

StageOrder == << "Building", "Signed", "Submitted", "Confirmed" >>

\* Building -> Signed -> Submitted -> Confirmed, cut short at any stage, or
\* cut short and ended by Failed.
AllowedTraces ==
    Prefixes(StageOrder)
    \cup { SubSeq(StageOrder, 1, n) \o << "Failed" >> : n \in 1..3 }

TxsOfCall(c) == { i \in 1..Len(chain_txs) : chain_txs[i].call = c }

LoggedCalls ==
    { audit_log.markets[i].call : i \in 1..Len(audit_log.markets) }
    \cup { audit_log.contract[i].call : i \in 1..Len(audit_log.contract) }

\* C9: a script whose wait for the receipt timed out, or whose receipt has a
\* status other than success, ends with exit status 1 and leaves no entry in
\* the update log.
C9_FailedReceiptIsReported ==
    (or_pc = "exited" /\ or_receipt \in {"timeout", "reverted"}) =>
       /\ or_exit = 1
       /\ or_call \notin LoggedCalls

\* C10: the stages of a publish attempt follow Building, Signed, Submitted,
\* Confirmed in that order, Failed can only end them, and one invocation
\* sends at most one raw transaction.
C10_OneAttemptNoRetry ==
    /\ or_trace \in AllowedTraces
    /\ or_sent <= 1
    /\ Cardinality(TxsOfCall(or_call)) = or_sent
    /\ (or_trace # << >> /\ or_trace[Len(or_trace)] = "Failed") =>
          or_pc = "exited" /\ or_exit = 1

\* The transaction went out and the wait for its receipt timed out.
C10_Witness ==
    /\ or_pc = "exited"
    /\ or_receipt = "timeout"
    /\ or_sent = 1
    /\ or_trace = << "Building", "Signed", "Submitted", "Failed" >>

ContractLog == audit_log.contract

\* C11: after the receipt update_price reads the price back and compares it
\* with the one submitted; a mismatch (a reverted update, or a read that
\* fails and yields 0) ends the run like a match does: the invocation has
\* sent exactly one transaction, and the hash of that transaction is the one
\* returned and logged.
C11_MismatchOnlyWarns ==
    or_script = "contract" =>
       /\ or_pc = "exited" /\ or_receipt \in {"success", "reverted"} =>
             /\ or_verify \in {"verified", "mismatch"}
             /\ or_verify = "verified" =>
                   PriceVerified(StoredPrice(chain_txs, AssetId("H200_HOURLY")),
                                 or_prices[1].price)
       /\ or_verify = "mismatch" =>
             /\ or_pc = "exited"
             /\ or_sent = 1
             /\ TxsOfCall(or_call) = {or_tx_hash}
             /\ or_exit = 0 =>
                   /\ ContractLog # << >>
                   /\ ContractLog[Len(ContractLog)].call = or_call
                   /\ ContractLog[Len(ContractLog)].tx_hash = or_tx_hash

\* The update was confirmed with status 1, the read-back failed, the warning
\* was printed and the run still ended with the transaction logged.
C11_Witness ==
    /\ or_script = "contract"
    /\ or_pc = "exited"
    /\ or_receipt = "success"
    /\ or_verify = "mismatch"
    /\ or_exit = 0

MarketsTxs == { i \in 1..Len(chain_txs) : chain_txs[i].script = "markets" }

\* C12: a provider-markets run with one pair sends updatePrice, a run with
\* two or more sends batchUpdatePrices, either of them once; the asset ids
\* and the prices of the call are as many as the pairs, and position k of
\* both belongs to the provider of pair k.
C12_SingleOrBatchCall ==
    \A i \in MarketsTxs :
       LET tx == chain_txs[i]
       IN  /\ TxsOfCall(tx.call) = {i}
           /\ Len(tx.prices) = 1 => tx.fn = "updatePrice"
           /\ Len(tx.prices) >= 2 => tx.fn = "batchUpdatePrices"
           /\ Len(tx.asset_ids) = Len(tx.prices)
           /\ Len(tx.new_prices) = Len(tx.prices)
           /\ \A k \in 1..Len(tx.prices) :
                 /\ tx.asset_ids[k] = AssetId(tx.prices[k].provider)
                 /\ tx.new_prices[k] = PriceScaled(tx.prices[k].price)

\* A batched call with the pairs of AWS and GCP was confirmed.
C12_Witness ==
    \E i \in MarketsTxs :
       /\ chain_txs[i].fn = "batchUpdatePrices"
       /\ Len(chain_txs[i].prices) = 2
       /\ chain_txs[i].status = "success"

\* price * 10^18 for a price of price / 100 dollars, as an integer.
ExactScaled(price) == BigTimesPow10(BigOf(price), PRICE_DECIMALS - 2)

\* C13: every value sent on-chain for a price p is the integer p * 10^18, by
\* the single call and by the batched call, and the price_scaled of the audit
\* log is that same integer.
C13_SentIsPriceTimesTenTo18 ==
    /\ \A i \in 1..Len(chain_txs) :
          \A k \in 1..Len(chain_txs[i].prices) :
             chain_txs[i].new_prices[k] = ExactScaled(chain_txs[i].prices[k].price)
    /\ \A i \in 1..Len(audit_log.markets) :
          \A k \in 1..Len(audit_log.markets[i].prices) :
             audit_log.markets[i].price_scaled[k] =
                ExactScaled(audit_log.markets[i].prices[k].price)

\* ------------------------------------------------- properties: the scrapers

\* The i-th strategy the running scraper has run returned something that
\* get_h200_prices accepts.
Accepted(i) ==
    /\ ~sc_invoked[i].raised
    /\ Plausible(sc_provider, sc_invoked[i].prices)

\* C14: within get_h200_prices the strategies are invoked in the order of
\* the list, one at a time, and once a strategy's result passes the check of
\* the provider no later strategy of the list is invoked.
C14_StrategiesInOrderFirstWins ==
    /\ Len(sc_invoked) <= Len(methods(sc_provider))
    /\ \A i \in 1..Len(sc_invoked) :
          /\ sc_invoked[i].method = methods(sc_provider)[i]
          /\ Accepted(i) => i = Len(sc_invoked) /\ sc_pc # "methods"

\* GCP's first strategy was accepted: the other three were never run.
C14_Witness ==
    /\ sc_provider = "GCP"
    /\ sc_pc = "returned"
    /\ Len(sc_invoked) = 1
    /\ Accepted(1)
    /\ sc_result # << >>

\* C15: a strategy that raises, or that returns nothing the provider's check
\* accepts, does not end the scraper: the next strategy is run, and after the
\* last one get_h200_prices returns an empty result and does not raise.
C15_FailedStrategyAdvances ==
    (\A i \in 1..Len(sc_invoked) : ~Accepted(i)) =>
        /\ sc_pc # "raised"
        /\ sc_pc \in {"after", "returned"} /\ sc_invoked # << >> =>
              Len(sc_invoked) = Len(methods(sc_provider))
        /\ sc_pc = "returned" => sc_result = << >>

\* HydraHost: the first strategy raised, the second found nothing, and the
\* scraper returned an empty result.
C15_Witness ==
    /\ sc_provider = "HydraHost"
    /\ sc_pc = "returned"
    /\ Len(sc_invoked) = 2
    /\ sc_invoked[1].raised
    /\ ~sc_invoked[2].raised /\ sc_invoked[2].prices = << >>
    /\ sc_result = << >>

\* The bounds a provider's code states for the number it reads off the page:
\* the range of _validate_prices (of the any(...) of HydraHost) in USD per
\* hour, and for LeaderGPU the 100 < price < 500 EUR per day of its
\* extraction.  AceCloud states none.
Bounds(provider) ==
    IF provider = "LeaderGPU" THEN [lo |-> 10000, hi |-> 50000]
    ELSE ValidRange(provider)

\* C16: whatever the provider and the strategy, a value outside the
\* provider's bounds counts as not found: every entry of the result of
\* get_h200_prices, each variant of it, comes from a value within the bounds.
C16_EveryVariantInBounds ==
    sc_pc = "returned" /\ sc_provider # "AceCloud" =>
        \A i \in 1..Len(sc_result) :
            Within(IF sc_provider = "LeaderGPU" THEN sc_result[i].raw
                   ELSE sc_result[i].price,
                   Bounds(sc_provider).lo, Bounds(sc_provider).hi)

\* The answers of the endpoints queried so far, none of them usable.
NoUsableRate ==
    \A i \in 1..Len(sc_queried) : ~UsableRate(sc_queried[i].response)

\* C17: when no exchange-rate endpoint gives a usable USD rate, the scraper
\* of AceCloud or LeaderGPU returns an empty result, runs no strategy and
\* puts no other rate in the place of the missing one.
C17_NoRateNoScrape ==
    exchange_apis(sc_provider) # << >> /\ NoUsableRate =>
        /\ sc_rate = 0
        /\ sc_invoked = << >>
        /\ sc_result = << >>
        /\ sc_pc \in {"rate", "returned"}
        /\ Len(sc_queried) = Len(exchange_apis(sc_provider)) =>
              sc_pc = "returned"

\* AceCloud: both endpoints failed, and the scraper returned {} without
\* running a strategy.
C17_Witness ==
    /\ sc_provider = "AceCloud"
    /\ Len(sc_queried) = 2
    /\ NoUsableRate
    /\ sc_pc = "returned"
    /\ sc_invoked = << >>
    /\ sc_result = << >>

\* C18: the endpoints are queried in the order of the list; the rate of the
\* first one that answers with a usable USD rate is returned and no endpoint
\* after it is queried; an endpoint that raises, answers with another status
\* than 200 or has no USD rate only moves on to the next one.
C18_FirstUsableRateWins ==
    /\ Len(sc_queried) <= Len(exchange_apis(sc_provider))
    /\ \A i \in 1..Len(sc_queried) :
          /\ sc_queried[i].api = exchange_apis(sc_provider)[i]
          /\ UsableRate(sc_queried[i].response) =>
                /\ i = Len(sc_queried)
                /\ sc_rate = sc_queried[i].response.usd
                /\ sc_pc # "rate"
          /\ ~UsableRate(sc_queried[i].response) /\ i = Len(sc_queried)
             /\ i < Len(exchange_apis(sc_provider)) => sc_pc = "rate"

\* LeaderGPU: the first endpoint raised, the second answered 404, the third
\* gave the rate the scraper went on with.
C18_Witness ==
    /\ sc_provider = "LeaderGPU"
    /\ Len(sc_queried) = 3
    /\ sc_queried[1].response.status = "raise"
    /\ sc_queried[2].response.status = "non200"
    /\ UsableRate(sc_queried[3].response)
    /\ sc_rate = sc_queried[3].response.usd
    /\ sc_pc = "returned"
    /\ sc_result # << >>

\* What the strategy that was accepted had returned.
AcceptedPrices == sc_invoked[Len(sc_invoked)].prices

\* C19: an instance price is divided by the GPU count, a monthly price by
\* 730, a daily price by 24, and an amount in another currency is multiplied
\* by the fetched rate: AceCloud returns (monthly INR / GPU count / 730) *
\* rate, averaged over the rows it read, LeaderGPU returns (daily EUR / 24) *
\* rate, GCP returns the price of the 8-GPU instance divided by 8.  Amounts
\* are in cents and rates in thousandths; AceCloud's rows are those whose
\* monthly price is a multiple of the GPU count.
C19_NormalizationArithmetic ==
    sc_pc = "returned" /\ sc_result # << >> =>
        LET rows == AcceptedPrices
        IN  /\ sc_provider = "AceCloud"
               /\ (\A i \in 1..Len(rows) : rows[i].price % rows[i].gpus = 0) =>
                  sc_result[1].price =
                     RoundCents(
                        SumPrices([i \in 1..Len(rows) |->
                                      (rows[i].price \div rows[i].gpus)
                                         * sc_rate]),
                        Len(rows) * 730 * 10)
            /\ sc_provider = "LeaderGPU" =>
                  sc_result[1].price =
                     RoundCents(rows[1].price * sc_rate, 24 * 1000)
            /\ sc_provider = "GCP" /\ rows[1].gpus = 8 =>
                  sc_result[1].price = RoundCents(rows[1].raw, 8)

\* AceCloud read 213500 INR a month for one GPU at 0.012 USD per INR and
\* returned 3.51 USD per hour, and so it did for an 8-GPU row of 1708000.
C19_Witness ==
    /\ sc_provider = "AceCloud"
    /\ sc_pc = "returned"
    /\ sc_rate = 12
    /\ Len(AcceptedPrices) = 1
    /\ AcceptedPrices[1].price \in {213500, 1708000}
    /\ AcceptedPrices[1].price = 213500 * AcceptedPrices[1].gpus
    /\ Len(sc_result) = 1
    /\ sc_result[1].variant = "H200 (AceCloud)"
    /\ sc_result[1].price = 351

\* The bounds of a provider on the value it returns, in USD cents per hour
\* and GPU: GCP's own range, and for LeaderGPU its 100 to 500 EUR a day at
\* the rate fetched.  AceCloud states none.
FinalBounds(provider, rate) ==
    IF provider = "LeaderGPU"
    THEN [lo |-> RoundCents(Bounds(provider).lo * rate, 24 * 1000),
          hi |-> RoundCents(Bounds(provider).hi * rate, 24 * 1000)]
    ELSE ValidRange(provider)

\* C20: the range check is made again on the value in USD per hour and GPU
\* that comes out of the conversion, and a provider whose converted value is
\* outside its bounds returns nothing: whatever LeaderGPU or GCP returns
\* lies within the bounds.
C20_FinalValueInBounds ==
    sc_pc = "returned" /\ sc_provider \in {"LeaderGPU", "GCP"} =>
        \A i \in 1..Len(sc_result) :
            /\ FinalBounds(sc_provider, sc_rate).lo <= sc_result[i].price
            /\ sc_result[i].price <= FinalBounds(sc_provider, sc_rate).hi

\* C21: every price a provider scraper returns is in USD per hour for one
\* GPU: an amount in another currency has been converted at the rate
\* fetched, a price of a multi-GPU instance has been divided by its GPU
\* count, and no euro amount or instance price is returned as USD for one
\* GPU.
C21_EmittedInUsdPerGpu ==
    sc_pc = "returned" =>
        \A i \in 1..Len(sc_result) :
            /\ sc_result[i].currency = "USD"
            /\ sc_result[i].per = 1

\* C22: a configuration failure ends the publisher before any work: without
\* a private key, or with a target asset that is not registered on the
\* oracle contract, the script exits before it builds or submits a
\* transaction, and no transaction is submitted for an unregistered asset.
C22_ConfigFailureIsFatal ==
    /\ or_env \in {"no_key", "not_registered"} =>
          /\ or_pc = "exited"
          /\ or_exit = 1
          /\ or_trace = << >>
          /\ or_sent = 0
    /\ \A i \in 1..Len(chain_txs) : chain_txs[i].env # "not_registered"

\* C23: every publication attempt, whether it succeeded or failed by a
\* revert, a timeout or a rejected input, appends one entry to the audit
\* log: a script that has reached its update call and ended has left one
\* entry of that invocation in its log file.
C23_EveryAttemptLogged ==
    or_pc = "exited" /\ or_fn # "none" =>
        Cardinality({ i \in 1..Len(audit_log[or_script]) :
                         audit_log[or_script][i].call = or_call }) = 1

\* ------------------------------------------------ properties: the log file

\* C24: after any number k of log_update calls on a log file that could
\* always be read and written, the file holds at most 100 entries, they are
\* the last min(100, k) of the k entries appended, and they are in the order
\* in which they were appended.
C24_LogKeepsLastHundred ==
    lg_faults = 0 =>
        IF lg_k = 0 THEN lg_file = NoFile
        ELSE /\ lg_file.kind = "list"
             /\ Len(lg_file.logs) = (IF lg_k < 100 THEN lg_k ELSE 100)
             /\ \A i \in 1..Len(lg_file.logs) :
                   lg_file.logs[i] = lg_k - Len(lg_file.logs) + i

\* 103 entries were appended: the file holds entries 4 to 103.
C24_Witness ==
    /\ lg_faults = 0
    /\ lg_k = 103
    /\ Len(lg_file.logs) = 100
    /\ lg_file.logs[1] = 4
    /\ lg_file.logs[100] = 103

RatesFetched ==
    { i \in 1..Len(sc_queried) : UsableRate(sc_queried[i].response) }

\* C25: in one run of a converting scraper the exchange rate is fetched
\* once, before the first strategy is run; that one value is the rate of
\* every conversion and the rate the result records, and nothing is fetched
\* again between the strategies or the conversions.
C25_RateFetchedOnce ==
    /\ [](exchange_apis(sc_provider) # << >> /\ sc_invoked # << >> =>
             /\ RatesFetched = {Len(sc_queried)}
             /\ sc_rate = sc_queried[Len(sc_queried)].response.usd
             /\ \A i \in 1..Len(sc_h200_prices) :
                   "exchange_rate" \in DOMAIN sc_h200_prices[i] =>
                      sc_h200_prices[i].exchange_rate = sc_rate
             /\ \A i \in 1..Len(sc_result) :
                   sc_result[i].exchange_rate = sc_rate)
    /\ [][(sc_pc \in {"methods", "after"})
              => (sc_queried' = sc_queried /\ sc_rate' = sc_rate)]_vars

\* LeaderGPU fetched its rate from the second endpoint, ran both strategies
\* and returned a price converted at that rate.
C25_Witness ==
    /\ sc_provider = "LeaderGPU"
    /\ sc_pc = "returned"
    /\ Len(sc_queried) = 2
    /\ Len(sc_invoked) = 2
    /\ sc_result # << >>
    /\ sc_result[1].exchange_rate = sc_rate
    /\ sc_result[1].price
          = RoundCents(sc_result[1].raw * sc_queried[2].response.usd, 24000)

\* -------------------------------------------- properties: plausibility

\* The results the loop of the running scraper got from a strategy whose
\* prices, all of them, are exactly the lower or the upper bound of the
\* scraper's range.
AtBound ==
    { i \in 1..Len(sc_invoked) :
        /\ ~sc_invoked[i].raised
        /\ sc_invoked[i].prices # << >>
        /\ \A j \in 1..Len(sc_invoked[i].prices) :
              sc_invoked[i].prices[j].price
                 \in {ValidRange(sc_provider).lo, ValidRange(sc_provider).hi} }

C27_FeeFromFreshBaseFee ==
    /\ [](\A i \in 1..Len(fe_txs) :
             LET tx == fe_txs[i]
             IN  /\ tx.maxPriorityFeePerGas = BigOf(1000000000)
                 /\ tx.maxFeePerGas
                       = BigTimes(IF BigLess(tx.base_fee, BigOf(1000000000))
                                  THEN BigOf(1000000000) ELSE tx.base_fee,
                                  2, 0)
                 /\ ~BigLess(tx.maxFeePerGas,
                             BigTimes(tx.maxPriorityFeePerGas, 2, 0))
                 /\ BigLess(tx.maxPriorityFeePerGas, tx.maxFeePerGas))
    /\ [][(fe_txs' # fe_txs)
              => (/\ fe_txs'[Len(fe_txs')].base_fee = fe_gas_price
                  /\ fe_txs'[Len(fe_txs')].nonce = fe_nonce)]_vars

\* Two transactions: the first built at a gas price one wei short of a gwei,
\* with a max fee of 2 gwei, and mined; the second built at 30 gwei, with a
\* max fee of 60 gwei and the next nonce.
C27_Witness ==
    /\ Len(fe_txs) = 2
    /\ fe_txs[1].base_fee = BigOf(999999999)
    /\ fe_txs[1].maxFeePerGas = BigOf(2000000000)
    /\ fe_txs[1].nonce = 0
    /\ fe_txs[2].base_fee = BigTimes(BigOf(1000000000), 30, 0)
    /\ fe_txs[2].maxFeePerGas = BigTimes(BigOf(1000000000), 60, 0)
    /\ fe_txs[2].nonce = 1

\* ------------------------------------- properties: the requested prices

\* The pairs of the running script's request that its validation is to
\* refuse: a price of 0 or less, or a provider that is not a known one.
BadPairs ==
    { i \in 1..Len(or_request.pairs) :
        \/ or_request.pairs[i].price <= 0
        \/ ~Known(or_request.pairs[i].provider) }

\* C29: a request of the provider-markets publisher with any price <= 0 or
\* any unknown provider in it gets no transaction built or submitted and
\* no entry in the log, whatever its other pairs are.
C29_InvalidRequestAllOrNothing ==
    or_request.mode \in {"provider", "csv", "all"} /\ BadPairs # { } =>
        /\ or_pc \notin {"build", "sign", "send", "wait", "finish"}
        /\ or_trace = << >>
        /\ \A i \in 1..Len(chain_txs) : chain_txs[i].call # or_call
        /\ \A i \in 1..Len(audit_log.markets) :
              audit_log.markets[i].call # or_call

\* --------------------------------------- properties: serialized runs

\* The rows a run stored on top of two or more, its history read without
\* an error.
GatedRows ==
    { i \in 3..Len(h200_index_prices) :
        /\ h200_index_prices[i].call # 0
        /\ \A d \in decisions :
              d.call = h200_index_prices[i].call => ~d.error }

\* C28: with the runs of push_to_supabase one after another and the history
\* read, every row stored when the table had two rows or more lies within
\* 25% either way, bounds included, of the mean of the two rows that were
\* the latest when it was stored; nothing in the code but the order of the
\* runs keeps two runs from checking against the same two rows and both
\* storing.
C28_SerializedRunsStayInBand ==
    \A i \in GatedRows :
       LET total == h200_index_prices[i - 1].index_price
                       + h200_index_prices[i - 2].index_price
           price == h200_index_prices[i].index_price
       IN  3 * total <= 8 * price /\ 8 * price <= 5 * total

\* Two runs, one after the other, each stored a row on top of two: the
\* second was checked against a pair that holds the row of the first.
C28_Witness ==
    /\ Len(h200_index_prices) = 4
    /\ GatedRows = {3, 4}
    /\ h200_index_prices[3].call # h200_index_prices[4].call
    /\ h200_index_prices[3].index_price # h200_index_prices[2].index_price

=============================================================================
